---- MODULE Spec2Model ----
(***************************************************************************)
(* Model of the mcp-email cache store (internal/cache: store.go, schema.go,*)
(* search.go), of the account registry and its IMAP handles                *)
(* (internal/email), of the synchronisation engine (Manager.SyncAccount)   *)
(* and of the tools search_emails and get_email (internal/tools), and of  *)
(* the request loop of the server (internal/mcp).                          *)
(*                                                                         *)
(* Text is modelled as a tuple of one-character strings, so that LIKE      *)
(* patterns, the FTS5 tokenizer and JSON serialisation are computed        *)
(* character by character.                                                 *)
(***************************************************************************)
EXTENDS Integers, Sequences, FiniteSets, TLC

VARIABLES accounts, folders, emails, emails_fts, sqlite_sequence,
          last_insert_rowid, SearchResultLimit, upserted, last,
          clients, sessions, trace, server, tx

vars == <<accounts, folders, emails, emails_fts, sqlite_sequence,
          last_insert_rowid, SearchResultLimit, upserted, last,
          clients, sessions, trace, server, tx>>

\* The cache database: three tables, the full-text index, the
\* AUTOINCREMENT counters, the connection's last_insert_rowid and the
\* statement the connection is executing.
dbvars == <<accounts, folders, emails, emails_fts, sqlite_sequence,
            last_insert_rowid, tx>>

\* The account handles of the registry, the remote sessions opened so far,
\* the calls of the operation in progress (its remote calls and, for a
\* synchronisation, its writes of folders and emails to the cache) and the
\* request loop.
netvars == <<clients, sessions, trace, server>>

(***************************************************************************)
(* Bounds of the model.  AUTOINCREMENT never reuses an id, so the id       *)
(* counters are capped in the guards of the upserts.                       *)
(***************************************************************************)
MaxAccountSeq == 3
MaxFolderSeq == 1
MaxEmailSeq == 2
\* Caps of the specification of synchronisation and get_email: the id
\* counters of folders and emails, and the number of sessions ever opened.
MaxSyncFolderSeq == 2
MaxSyncEmailSeq == 3
MaxSessions == 2
\* The number of folder upserts in the runs that synchronise folders again.
MaxResyncFolderSeq == 3
\* The number of requests the request loop reads.
MaxRequests == 3
\* The number of body sections of a fetched message.
MaxSections == 2
\* The mailbox sizes of the fetch windows: the low half of a size is within
\* this distance of its least or of its greatest value.
MaxMailboxLow == 110

(***************************************************************************)
(* Text helpers.                                                           *)
(***************************************************************************)
LowerLetters == {"a", "b", "c", "d", "e", "l", "n", "u", "x", "y"}
UpperLetters == {"A", "B"}

\* ASCII case folding, as SQLite's LIKE and the unicode61 tokenizer apply it.
FoldCase(c) ==
  IF c = "A" THEN "a" ELSE IF c = "B" THEN "b" ELSE c

IsAlnum(c) == c \in LowerLetters \cup UpperLetters

\* Strict (case-sensitive, literal) substring test.
IsSubstring(sub, s) ==
  \E k \in 0..(Len(s) - Len(sub)) : SubSeq(s, k + 1, k + Len(sub)) = sub

RECURSIVE LikeAt(_, _, _, _)
\* SQLite's LIKE operator: % matches any run of characters, _ matches one
\* character, every other character matches itself ignoring ASCII case.
LikeAt(p, i, s, j) ==
  IF i > Len(p) THEN j > Len(s)
  ELSE IF p[i] = "%" THEN \E k \in j..(Len(s) + 1) : LikeAt(p, i + 1, s, k)
  ELSE /\ j <= Len(s)
       /\ (p[i] = "_" \/ FoldCase(p[i]) = FoldCase(s[j]))
       /\ LikeAt(p, i + 1, s, j + 1)

Like(s, p) == LikeAt(p, 1, s, 1)

\* The pattern the search builds from a filter value: "%" + value + "%".
Wrap(v) == <<"%">> \o v \o <<"%">>

\* The end of the run of alphanumeric characters of s that starts at i.
RunEnd(s, i) ==
  CHOOSE j \in i..Len(s) :
    /\ \A k \in i..j : IsAlnum(s[k])
    /\ (j = Len(s) \/ ~IsAlnum(s[j + 1]))

\* The FTS5 default (unicode61) tokenizer: maximal runs of alphanumeric
\* characters, case-folded; every other character separates tokens.
Tokens(s) ==
  { [k \in 1..(RunEnd(s, i) - i + 1) |-> FoldCase(s[i + k - 1])] :
    i \in { x \in DOMAIN s :
             IsAlnum(s[x]) /\ (x = 1 \/ ~IsAlnum(s[x - 1])) } }

RECURSIVE EscapeJSON(_)
\* How json.Marshal writes the bytes of a Go string between the quotes: a
\* quote and a backslash are escaped with a backslash, a byte that is not
\* valid UTF-8 is replaced by the replacement rune U+FFFD.
EscapeJSON(s) ==
  IF s = <<>> THEN <<>>
  ELSE (IF Head(s) \in {"\"", "\\"} THEN <<"\\", Head(s)>>
        ELSE IF Head(s) = "0xFF" THEN <<"U+FFFD">>
        ELSE <<Head(s)>>)
       \o EscapeJSON(Tail(s))

RECURSIVE JoinQuoted(_)
JoinQuoted(ss) ==
  IF ss = <<>> THEN <<>>
  ELSE <<"\"">> \o EscapeJSON(Head(ss)) \o <<"\"">>
       \o (IF Tail(ss) = <<>> THEN <<>> ELSE <<",">>) \o JoinQuoted(Tail(ss))

\* json.Marshal of a []string (the lists are never a nil slice:
\* parseMessage starts from []string{}).
MarshalStrings(ss) == <<"[">> \o JoinQuoted(ss) \o <<"]">>

RECURSIVE JoinPairs(_)
JoinPairs(kvs) ==
  IF kvs = <<>> THEN <<>>
  ELSE <<"\"">> \o EscapeJSON(Head(kvs)[1]) \o <<"\"", ":", "\"">>
       \o EscapeJSON(Head(kvs)[2]) \o <<"\"">>
       \o (IF Tail(kvs) = <<>> THEN <<>> ELSE <<",">>) \o JoinPairs(Tail(kvs))

\* json.Marshal of a map[string]string, which writes the entries in key
\* order; a map is represented by the sequence of its <<key, value>>
\* entries in key order.
MarshalMap(kvs) == <<"{">> \o JoinPairs(kvs) \o <<"}">>

RECURSIVE ScanStrings(_, _, _, _, _)
\* The JSON strings of a text, in order, unescaped: outside a string every
\* character up to the next quote is skipped; inside a string a backslash
\* makes the next character literal and a quote ends the string.
ScanStrings(t, i, inString, cur, acc) ==
  IF i > Len(t) THEN acc
  ELSE IF ~inString
    THEN ScanStrings(t, i + 1, t[i] = "\"", <<>>, acc)
  ELSE IF t[i] = "\\" /\ i < Len(t)
    THEN ScanStrings(t, i + 2, TRUE, Append(cur, t[i + 1]), acc)
  ELSE IF t[i] = "\""
    THEN ScanStrings(t, i + 1, FALSE, <<>>, Append(acc, cur))
  ELSE ScanStrings(t, i + 1, TRUE, Append(cur, t[i]), acc)

\* json.Unmarshal of an array text into a []string.
UnmarshalStrings(t) == ScanStrings(t, 1, FALSE, <<>>, <<>>)

\* json.Unmarshal of an object text into a map[string]string.
UnmarshalMap(t) ==
  LET ss == ScanStrings(t, 1, FALSE, <<>>, <<>>)
  IN [k \in 1..(Len(ss) \div 2) |-> <<ss[2 * k - 1], ss[2 * k]>>]

(***************************************************************************)
(* Timestamps.  A time.Time is a wall-clock reading together with a zone   *)
(* offset; the instant it denotes is wall - off.  The driver binds a       *)
(* time.Time as text (wall clock first, zone last), and the DATETIME       *)
(* column keeps that text, so SQL compares and orders dates as text.       *)
(***************************************************************************)
Instant(d) == d.wall - d.off

\* Rank of the zone suffix in text order: "+hhmm" sorts before "-hhmm"
\* ('+' < '-'), and within one sign by magnitude.
ZoneRank(off) == IF off >= 0 THEN off ELSE 1000 - off

\* Text order of two stored dates (d1 <= d2 as SQL compares them).
DateTextLeq(d1, d2) ==
  \/ d1.wall < d2.wall
  \/ d1.wall = d2.wall /\ ZoneRank(d1.off) <= ZoneRank(d2.off)

(***************************************************************************)
(* Inputs: account names, folder paths and a small set of messages.        *)
(***************************************************************************)
\* Config.Accounts, in configuration order.
ConfiguredAccounts == <<"work", "home">>
AccountNames == { ConfiguredAccounts[i] : i \in DOMAIN ConfiguredAccounts }
FolderPaths == {"INBOX", "Sent"}
UIDs == {1, 2}

\* The connection parameters (host, port and username of the IMAP and of
\* the SMTP role) of a configured account, as one value.
ConfigParams == [work |-> "imap.work", home |-> "imap.home"]

\* The AccountConfig of a configured account.
AccountConfig(name) == [Name |-> name, Params |-> ConfigParams[name]]

Date(w, o) == [wall |-> w, off |-> o]

Messages ==
  { [subject |-> <<"A">>, sender_name |-> <<"A", "n", "n">>,
     sender_email |-> <<"a", "@", "x">>,
     recipients |-> << <<"b", "@", "x">> >>,
     date |-> Date(1, 0), body_text |-> <<"a", "b", " ", "c">>,
     body_html |-> <<>>, headers |-> <<>>, flags |-> << <<"S">> >>],
    [subject |-> <<"B">>, sender_name |-> <<>>,
     sender_email |-> <<"b", "@", "y">>,
     recipients |-> << <<"a", "@", "x">>, <<"c", "@", "y">> >>,
     date |-> Date(2, 0), body_text |-> <<"d">>,
     body_html |-> <<"d">>, headers |-> <<>>, flags |-> <<>>],
    [subject |-> <<"a", "b">>, sender_name |-> <<"B">>,
     sender_email |-> <<"b", "@", "y">>,
     recipients |-> <<>>,
     date |-> Date(1, -2), body_text |-> <<>>,
     body_html |-> <<>>, headers |-> <<>>, flags |-> <<>>] }

(***************************************************************************)
(* Schema: tables, uniqueness constraints, foreign keys, FTS triggers.     *)
(***************************************************************************)
FtsColumns == {"subject", "sender_email", "sender_name", "body_text"}

\* The postings an emails row contributes to the full-text index: one per
\* indexed column and token of that column's value.
RowPostings(id, row) ==
  UNION { { <<id, col, tok>> : tok \in Tokens(row[col]) } : col \in FtsColumns }

\* The postings the index currently holds for a rowid.
PostingsOf(fts, id) == { p \in fts : p[1] = id }

Triple(row) == <<row.account_id, row.folder_id, row.uid>>

\* What FTS5 reads as "the current content" of a rowid of the
\* external-content table emails_fts (content='emails', content_rowid='id'):
\* the row of the emails table with that id, if there is one.
ContentPostings(tbl, id) ==
  UNION { RowPostings(r.id, r) : r \in { x \in tbl : x.id = id } }

\* Trigger emails_fts_insert: the new row's values are added under new.id.
emails_fts_insert(fts, new) == fts \cup RowPostings(new.id, new)

\* Trigger emails_fts_update: UPDATE emails_fts SET ... WHERE rowid = new.id.
\* FTS5 runs an UPDATE of an external-content table as "remove the postings
\* of the row's current content, then add the postings of the new values".
\* The current content is read from the emails table tbl, which at
\* AFTER UPDATE time already holds the new values, so the postings of the
\* previous values stay in the index.
emails_fts_update(fts, tbl, new) ==
  (fts \ ContentPostings(tbl, new.id)) \cup RowPostings(new.id, new)

\* Trigger emails_fts_delete: DELETE FROM emails_fts WHERE rowid = old.id.
\* At AFTER DELETE time tbl no longer has the row, the scan of the
\* external-content table finds nothing to delete.
emails_fts_delete(fts, tbl, old) == fts \ ContentPostings(tbl, old.id)

(***************************************************************************)
(* History: for every key (account_id, folder_id, uid) that an UpsertEmail *)
(* call has written, upserted holds <<key, subject of the latest call,     *)
(* subjects of the earlier calls>>.                                        *)
(*                                                                         *)
(* Initial state: the cache as main leaves it before serving requests: a   *)
(* fresh database in which every configured account has been upserted, a   *)
(* validated configuration, and a registry whose handles have never        *)
(* connected.                                                              *)
(***************************************************************************)
\* The record of the last operation: its name, its argument, its error
\* ("" when it succeeded) and, for a search, the limit applied and the
\* result sequence.
Outcome(op, arg, err, limit, results) ==
  [op |-> op, arg |-> arg, err |-> err, limit |-> limit, results |-> results]

NoOp == Outcome("none", <<>>, "", 0, <<>>)

\* Config.Validate accepts SEARCH_RESULT_LIMIT in 1..1000.
ValidSearchResultLimit(n) == n >= 1 /\ n <= 1000

\* LoadConfig: SEARCH_RESULT_LIMIT defaults to 100.
DefaultSearchResultLimit == 100

\* The connection executes no statement: it is in autocommit mode and no
\* transaction is open.
NoTx == [stage |-> "none"]

\* NewIMAPClient: a handle without a client, not connected.
NewIMAPClient == [client |-> 0, connected |-> FALSE]

\* NewAccountManager: one handle per configured account; nothing is dialed.
NewAccountManager == [n \in AccountNames |-> NewIMAPClient]

\* Server.Run at the top of its loop: the position of the loop, the
\* number of requests decoded, the number of responses handleRequest has
\* returned, the number of responses written, and the requests whose
\* handling has started and has not returned.
NewServer ==
  [pc |-> "decode", req |-> 0, resp |-> 0, sent |-> 0, active |-> {}]

\* handleRequest returns the response of the request in hand to the loop.
Respond(srv) ==
  [srv EXCEPT !.pc = "encode", !.resp = @ + 1, !.active = @ \ {srv.req}]

\* The return of a tool's Execute: handleRequest, when it made the call,
\* returns the response to the loop.
Returned ==
  server' = IF server.pc = "handle" THEN Respond(server) ELSE server

InitNet ==
  /\ clients = NewAccountManager
  /\ sessions = <<>>
  /\ trace = <<>>
  /\ server = NewServer

InitCache ==
  /\ accounts = { [id |-> i, name |-> ConfiguredAccounts[i],
                   params |-> ConfigParams[ConfiguredAccounts[i]]] :
                  i \in DOMAIN ConfiguredAccounts }
  /\ folders = {}
  /\ emails = {}
  /\ emails_fts = {}
  /\ sqlite_sequence = [accounts |-> Len(ConfiguredAccounts),
                        folders |-> 0, emails |-> 0]
  /\ last_insert_rowid = Len(ConfiguredAccounts)
  /\ tx = NoTx
  /\ upserted = {}
  /\ last = NoOp
  /\ InitNet

Init ==
  /\ InitCache
  /\ SearchResultLimit = DefaultSearchResultLimit

(***************************************************************************)
(* Store: upserts (store.go).  Every store method is an operator from a    *)
(* database value (a record of the tables) to its result: the database     *)
(* after the call, the value returned and the error ("" for nil).          *)
(***************************************************************************)
\* The database in the current state.
DB ==
  [accounts |-> accounts, folders |-> folders, emails |-> emails,
   emails_fts |-> emails_fts, sqlite_sequence |-> sqlite_sequence,
   last_insert_rowid |-> last_insert_rowid]

\* The database in the next state is db, and no statement is in progress.
SetDB(db) ==
  /\ tx' = NoTx
  /\ accounts' = db.accounts
  /\ folders' = db.folders
  /\ emails' = db.emails
  /\ emails_fts' = db.emails_fts
  /\ sqlite_sequence' = db.sqlite_sequence
  /\ last_insert_rowid' = db.last_insert_rowid

\* INTEGER PRIMARY KEY AUTOINCREMENT: the next id of a table.  The id is
\* allocated before the uniqueness check, so an upsert that ends in the
\* DO UPDATE branch consumes one too.
NextId(db, tbl) == db.sqlite_sequence[tbl] + 1

Bump(db, tbl) == [db.sqlite_sequence EXCEPT ![tbl] = @ + 1]

\* Store.UpsertAccount: INSERT ... ON CONFLICT(name) DO UPDATE SET the
\* connection parameters.  The id returned is result.LastInsertId(), the
\* connection's last_insert_rowid, which only an INSERT that creates a row
\* sets.
StoreUpsertAccount(db, acc) ==
  LET old == { a \in db.accounts : a.name = acc.Name }
      id == NextId(db, "accounts")
  IN IF old = {}
       THEN [db |-> [db EXCEPT
                       !.accounts = @ \cup {[id |-> id, name |-> acc.Name,
                                             params |-> acc.Params]},
                       !.sqlite_sequence = Bump(db, "accounts"),
                       !.last_insert_rowid = id],
             id |-> id, err |-> ""]
       ELSE [db |-> [db EXCEPT
                       !.accounts = (@ \ old) \cup
                                    { [a EXCEPT !.params = acc.Params] : a \in old },
                       !.sqlite_sequence = Bump(db, "accounts")],
             id |-> db.last_insert_rowid, err |-> ""]

UpsertAccount(acc) ==
  /\ sqlite_sequence.accounts < MaxAccountSeq
  /\ LET r == StoreUpsertAccount(DB, acc)
     IN /\ SetDB(r.db)
        /\ last' = Outcome("UpsertAccount", <<>>, r.err, 0, <<>>)
  /\ UNCHANGED <<SearchResultLimit, upserted, netvars>>

\* A clock that stands still.
CurrentTimestamp_Frozen(db) == 0

\* CURRENT_TIMESTAMP of a statement that writes a folder row.  The only
\* times the program keeps and compares are those of the folder rows, so
\* time is the logical clock of the writes of that table: the number of
\* the statement among them, which the AUTOINCREMENT counter of the table
\* holds, every upsert taking a new value of the counter.
CurrentTimestamp(db) == db.sqlite_sequence.folders + 1

\* Store.UpsertFolder: INSERT ... ON CONFLICT(account_id, path) DO UPDATE
\* SET message_count and last_synced;
\* the foreign key to accounts(id) is enforced (PRAGMA foreign_keys = ON)
\* and a violation leaves the database as it was.  The id returned is
\* result.LastInsertId().
StoreUpsertFolder(db, accountID, path, messageCount) ==
  LET old == { f \in db.folders : f.account_id = accountID /\ f.path = path }
      id == NextId(db, "folders")
  IN IF ~\E a \in db.accounts : a.id = accountID
       THEN [db |-> db, id |-> 0, err |-> "failed to upsert folder"]
     ELSE IF old = {}
       THEN [db |-> [db EXCEPT
                       !.folders = @ \cup {[id |-> id, account_id |-> accountID,
                                            path |-> path,
                                            message_count |-> messageCount,
                                            last_synced |-> CurrentTimestamp(db)]},
                       !.sqlite_sequence = Bump(db, "folders"),
                       !.last_insert_rowid = id],
             id |-> id, err |-> ""]
       ELSE [db |-> [db EXCEPT
                       !.folders = (@ \ old) \cup
                                   { [f EXCEPT !.message_count = messageCount,
                                               !.last_synced = CurrentTimestamp(db)] :
                                     f \in old },
                       !.sqlite_sequence = Bump(db, "folders")],
             id |-> db.last_insert_rowid, err |-> ""]

UpsertFolder(accountID, path) ==
  /\ sqlite_sequence.folders < MaxFolderSeq
  /\ LET r == StoreUpsertFolder(DB, accountID, path, 0)
     IN /\ SetDB(r.db)
        /\ last' = Outcome("UpsertFolder", <<>>, r.err, 0, <<>>)
  /\ UNCHANGED <<SearchResultLimit, upserted, netvars>>

\* The emails row an Email value is written as: the recipients, the
\* headers and the flags are stored as their JSON text.
EmailRow(id, accountID, folderID, uid, m) ==
  [id |-> id, account_id |-> accountID, folder_id |-> folderID, uid |-> uid,
   subject |-> m.subject, sender_name |-> m.sender_name,
   sender_email |-> m.sender_email,
   recipients |-> MarshalStrings(m.recipients), date |-> m.date,
   body_text |-> m.body_text, body_html |-> m.body_html,
   headers |-> MarshalMap(m.headers), flags |-> MarshalStrings(m.flags)]

\* DoUpdate with "subject = excluded.subject" left out of the SET clause.
DoUpdate_KeepsSubject(cur, excluded) ==
  [excluded EXCEPT !.id = cur.id, !.account_id = cur.account_id,
                   !.folder_id = cur.folder_id, !.uid = cur.uid,
                   !.subject = cur.subject]

\* DoUpdate as INSERT OR REPLACE would behave: the conflicting row is
\* replaced by the rejected row, which has a fresh id.
DoUpdate_FreshId(cur, excluded) ==
  [excluded EXCEPT !.account_id = cur.account_id,
                   !.folder_id = cur.folder_id, !.uid = cur.uid]

\* ON CONFLICT(account_id, folder_id, uid) DO UPDATE SET ...: the row that
\* replaces the conflicting row cur.  Every column listed in the SET clause
\* takes the value of the rejected row ("excluded"); id and the key columns
\* are not listed and keep their values.
DoUpdate(cur, excluded) ==
  [excluded EXCEPT !.id = cur.id, !.account_id = cur.account_id,
                   !.folder_id = cur.folder_id, !.uid = cur.uid]

\* Store.UpsertEmail: INSERT ... ON CONFLICT(account_id, folder_id, uid)
\* DO UPDATE; the FTS triggers run inside the statement.  A foreign-key
\* violation undoes the row and its postings, but the rowid the statement
\* had assigned stays in last_insert_rowid.
StoreUpsertEmail(db, accountID, folderID, uid, m) ==
  LET key == <<accountID, folderID, uid>>
      old == { r \in db.emails : Triple(r) = key }
      excluded == EmailRow(NextId(db, "emails"), accountID, folderID, uid, m)
      new == IF old = {} THEN excluded
             ELSE DoUpdate(CHOOSE r \in old : TRUE, excluded)
      tbl == (db.emails \ old) \cup {new}
  IN IF ~(/\ \E a \in db.accounts : a.id = accountID
          /\ \E f \in db.folders : f.id = folderID)
       THEN [db |-> [db EXCEPT !.last_insert_rowid = NextId(db, "emails")],
             err |-> "failed to upsert email"]
       ELSE [db |-> [db EXCEPT
                       !.emails = tbl,
                       !.emails_fts =
                          IF old = {} THEN emails_fts_insert(@, new)
                          ELSE emails_fts_update(@, tbl, new),
                       !.sqlite_sequence = Bump(db, "emails"),
                       !.last_insert_rowid =
                          IF old = {} THEN new.id ELSE @],
             err |-> ""]

UpsertEmail(accountID, folderID, uid, m) ==
  /\ sqlite_sequence.emails < MaxEmailSeq
  /\ LET r == StoreUpsertEmail(DB, accountID, folderID, uid, m)
         key == <<accountID, folderID, uid>>
     IN /\ SetDB(r.db)
        /\ upserted' =
             IF r.err # "" THEN upserted
             ELSE { u \in upserted : u[1] # key } \cup
                  { <<key, m.subject,
                      { u[2] : u \in { x \in upserted : x[1] = key } } \cup
                      UNION { u[3] : u \in { x \in upserted : x[1] = key } }>> }
        /\ last' = Outcome("UpsertEmail", <<>>, r.err, 0, <<>>)
  /\ UNCHANGED <<SearchResultLimit, netvars>>

\* The statement of Store.UpsertEmail, step by step.  The program never
\* opens a transaction, so the statement runs in a transaction of its own
\* that SQLite opens when the statement starts and commits when it has
\* run, trigger programs included; tx.work is the database as the
\* statement sees it and the variables hold what is committed.
\*
\* The statement commits after any write it has made, as it would if the
\* row and the index were written by two statements.
CommitPoint_PerWrite(stage) == stage \in {"row", "indexed"}

\* The statement commits when its trigger programs have run.
CommitPoint(stage) == stage = "indexed"

\* The statement starts (s.cache.DB().Exec).
BeginUpsert(accountID, folderID, uid, m) ==
  /\ tx.stage = "none"
  /\ sqlite_sequence.emails < MaxEmailSeq
  /\ tx' = [stage |-> "begun", key |-> <<accountID, folderID, uid>>,
            m |-> m, old |-> {}, work |-> DB]
  /\ UNCHANGED <<accounts, folders, emails, emails_fts, sqlite_sequence,
                 last_insert_rowid, SearchResultLimit, upserted, last, netvars>>

\* The row written by the statement of tx on the database it sees.
TxRow(t) ==
  LET old == { r \in t.work.emails : Triple(r) = t.key }
      excluded == EmailRow(NextId(t.work, "emails"), t.key[1], t.key[2],
                           t.key[3], t.m)
  IN IF old = {} THEN excluded ELSE DoUpdate(CHOOSE r \in old : TRUE, excluded)

\* The foreign keys of the row of the statement hold.
TxReferencesHold(t) ==
  /\ \E a \in t.work.accounts : a.id = t.key[1]
  /\ \E f \in t.work.folders : f.id = t.key[2]

\* INSERT ... ON CONFLICT DO UPDATE writes the row.  A foreign-key
\* violation ends the statement with an error: its transaction is rolled
\* back and only the rowid it had assigned stays, in last_insert_rowid.
WriteRow ==
  /\ tx.stage = "begun"
  /\ IF TxReferencesHold(tx)
       THEN /\ tx' = [tx EXCEPT
                        !.stage = "row",
                        !.old = { r \in tx.work.emails : Triple(r) = tx.key },
                        !.work = [@ EXCEPT
                           !.emails = { r \in @ : Triple(r) # tx.key }
                                      \cup {TxRow(tx)},
                           !.sqlite_sequence = Bump(tx.work, "emails"),
                           !.last_insert_rowid =
                              IF \E r \in tx.work.emails : Triple(r) = tx.key
                                THEN @ ELSE NextId(tx.work, "emails")]]
            /\ UNCHANGED <<last, last_insert_rowid>>
       ELSE /\ tx' = NoTx
            /\ last_insert_rowid' = NextId(tx.work, "emails")
            /\ last' = Outcome("UpsertEmail", <<>>, "failed to upsert email",
                               0, <<>>)
  /\ UNCHANGED <<accounts, folders, emails, emails_fts, sqlite_sequence,
                 SearchResultLimit, upserted, netvars>>

\* The trigger of the write runs: emails_fts_insert after an INSERT,
\* emails_fts_update after the UPDATE of a conflicting row.
RunTrigger ==
  /\ tx.stage = "row"
  /\ tx' = [tx EXCEPT
              !.stage = "indexed",
              !.work = [@ EXCEPT
                 !.emails_fts =
                    LET new == CHOOSE r \in tx.work.emails : Triple(r) = tx.key
                    IN IF tx.old = {} THEN emails_fts_insert(@, new)
                       ELSE emails_fts_update(@, tx.work.emails, new)]]
  /\ UNCHANGED <<accounts, folders, emails, emails_fts, sqlite_sequence,
                 last_insert_rowid, SearchResultLimit, upserted, last, netvars>>

\* The statement has run: its transaction commits and Exec returns.
Commit ==
  /\ tx.stage # "none"
  /\ CommitPoint(tx.stage)
  /\ SetDB(tx.work)
  /\ upserted' =
       { u \in upserted : u[1] # tx.key } \cup
       { <<tx.key, tx.m.subject,
           { u[2] : u \in { x \in upserted : x[1] = tx.key } } \cup
           UNION { u[3] : u \in { x \in upserted : x[1] = tx.key } }>> }
  /\ last' = Outcome("UpsertEmail", <<>>, "", 0, <<>>)
  /\ UNCHANGED <<SearchResultLimit, netvars>>

\* The process dies while the statement runs: the database file is left
\* with the rollback journal of the open transaction, which undoes the
\* writes of the transaction when the file is next opened.
Crash ==
  /\ tx.stage # "none"
  /\ tx' = NoTx
  /\ last' = Outcome("crash", tx.stage, "", 0, <<>>)
  /\ UNCHANGED <<accounts, folders, emails, emails_fts, sqlite_sequence,
                 last_insert_rowid, SearchResultLimit, upserted, netvars>>

\* The schema on DELETE of the emails rows gone: the rows leave the table
\* and trigger emails_fts_delete runs for each of them (it runs for rows
\* removed by a cascade too), when the table no longer holds the row.
DeleteEmails(db, gone) ==
  [db EXCEPT
     !.emails = @ \ gone,
     !.emails_fts = @ \ UNION { ContentPostings(db.emails \ gone, r.id) :
                                 r \in gone }]

\* DELETE FROM folders WHERE id = folderID: ON DELETE CASCADE of
\* emails.folder_id removes the emails of the folder.
StoreDeleteFolder(db, folderID) ==
  [DeleteEmails(db, { r \in db.emails : r.folder_id = folderID })
     EXCEPT !.folders = { f \in @ : f.id # folderID }]

\* DELETE FROM accounts WHERE id = accountID: ON DELETE CASCADE of
\* folders.account_id and of emails.account_id removes the folders of the
\* account, the emails of those folders and the emails of the account.
StoreDeleteAccount(db, accountID) ==
  [DeleteEmails(db, { r \in db.emails :
                        \/ r.account_id = accountID
                        \/ \E f \in db.folders :
                             f.account_id = accountID /\ f.id = r.folder_id })
     EXCEPT !.folders = { f \in @ : f.account_id # accountID },
            !.accounts = { a \in @ : a.id # accountID }]

\* The end of a removal that leaves the database db: the history of the
\* keys whose rows are gone is forgotten.
Deleted(db, op, id) ==
  /\ SetDB(db)
  /\ upserted' = { u \in upserted : \E r \in db.emails : Triple(r) = u[1] }
  /\ last' = Outcome(op, id, "", 0, <<>>)
  /\ UNCHANGED <<SearchResultLimit, netvars>>

\* An account row is removed from the cache database.
DeleteAccount(accountID) ==
  Deleted(StoreDeleteAccount(DB, accountID), "DeleteAccount", accountID)

\* A folder row is removed from the cache database.
DeleteFolder(folderID) ==
  Deleted(StoreDeleteFolder(DB, folderID), "DeleteFolder", folderID)

\* Store.GetEmail: the emails row with that id joined with its account and
\* its folder, the JSON columns unmarshalled; the empty set is the error
\* "email not found".
GetEmail(tbl, emailID) ==
  { [id |-> r.id, account_id |-> r.account_id, account_name |-> a.name,
     folder_id |-> r.folder_id, folder_path |-> f.path, uid |-> r.uid,
     subject |-> r.subject, sender_name |-> r.sender_name,
     sender_email |-> r.sender_email,
     recipients |-> UnmarshalStrings(r.recipients), date |-> r.date,
     body_text |-> r.body_text, body_html |-> r.body_html,
     headers |-> UnmarshalMap(r.headers),
     flags |-> UnmarshalStrings(r.flags)] :
    r \in { x \in tbl : x.id = emailID },
    a \in { x \in accounts : \E y \in tbl : y.id = emailID /\ y.account_id = x.id },
    f \in { x \in folders : \E y \in tbl : y.id = emailID /\ y.folder_id = x.id } }

\* An id that no row has (AUTOINCREMENT ids start at 1).
NoSuchId == 0

\* The writes of a synchronisation pass: the account row, a folder of an
\* account, and the messages of a cached folder, written with that
\* folder's id and its account's id; a call naming an account or a folder
\* that has no row fails on the foreign key.
AccountWrite == \E name \in AccountNames : UpsertAccount(AccountConfig(name))

FolderWrite ==
  \/ \E a \in accounts, p \in FolderPaths : UpsertFolder(a.id, p)
  \/ \E p \in FolderPaths : UpsertFolder(NoSuchId, p)

EmailWrite ==
  \/ \E f \in folders, u \in UIDs, m \in Messages :
       UpsertEmail(f.account_id, f.id, u, m)
  \/ \E a \in accounts, u \in UIDs, m \in Messages :
       UpsertEmail(a.id, NoSuchId, u, m)

StoreWrite == AccountWrite \/ FolderWrite \/ EmailWrite

(***************************************************************************)
(* Store: search (search.go).                                              *)
(***************************************************************************)
\* The zero value of SearchOptions: every pointer nil (the empty set), and
\* Limit 0.  A pointer to v is the set {v}.
NoOptions ==
  [AccountID |-> {}, FolderID |-> {}, Sender |-> {}, Recipient |-> {},
   Subject |-> {}, Body |-> {}, DateFrom |-> {}, DateTo |-> {}, Limit |-> 0]

RECURSIVE ReplaceQuotes(_)
\* strings.ReplaceAll(q, "\"", "\"\"") followed by
\* strings.ReplaceAll(q, "'", "''"): every quote character is doubled.
ReplaceQuotes(q) ==
  IF q = <<>> THEN <<>>
  ELSE (IF Head(q) \in {"\"", "'"} THEN <<Head(q), Head(q)>> ELSE <<Head(q)>>)
       \o ReplaceQuotes(Tail(q))

\* How FTS5 reads a MATCH argument built of barewords: the text must
\* consist of barewords (letters) separated by spaces or by empty strings
\* (""), and have at least one bareword or string; anything else is a
\* syntax error.
FtsSyntaxError(q) ==
  \/ \E i \in DOMAIN q : ~IsAlnum(q[i]) /\ q[i] \notin {" ", "\""}
  \/ \A i \in DOMAIN q : q[i] = " "

\* The rowids emails_fts MATCH q selects: those for which every bareword
\* of q, tokenized, has a posting in some column (implicit AND).
FtsMatch(fts, q) ==
  LET terms == Tokens(q)
  IN { id \in { p[1] : p \in fts } :
         /\ terms # {}
         /\ \A t \in terms : \E p \in fts : p[1] = id /\ p[3] = t }

\* The WHERE clause Search builds: one condition per non-nil option.
Matches(r, opts, fts) ==
  /\ \A a \in opts.AccountID : r.account_id = a
  /\ \A f \in opts.FolderID : r.folder_id = f
  /\ \A v \in opts.Sender :
       Like(r.sender_email, Wrap(v)) \/ Like(r.sender_name, Wrap(v))
  /\ \A v \in opts.Recipient : Like(r.recipients, Wrap(v))
  /\ \A v \in opts.Subject : Like(r.subject, Wrap(v))
  /\ \A d \in opts.DateFrom : DateTextLeq(d, r.date)
  /\ \A d \in opts.DateTo : DateTextLeq(r.date, d)
  /\ \A q \in opts.Body : r.id \in FtsMatch(fts, ReplaceQuotes(q))

\* The limit Search applies: 100 when opts.Limit <= 0, at most 1000.
SearchDefaultLimit == 100
SearchMaxLimit == 1000

\* ClampLimit without the upper clamp.
ClampLimit_NoMax(limit) ==
  IF limit <= 0 THEN SearchDefaultLimit ELSE limit

ClampLimit(limit) ==
  IF limit <= 0 THEN SearchDefaultLimit
  ELSE IF limit > SearchMaxLimit THEN SearchMaxLimit
  ELSE limit

\* The UTF-8 encoding of a character: "é" takes two bytes, every other
\* character of the model one.
Utf8(c) == IF c = "é" THEN <<"0xC3", "0xA9">> ELSE <<c>>

\* The number of bytes of s before its character i.
ByteOffset(s, i) ==
  (i - 1) + Cardinality({ j \in 1..(i - 1) : Len(Utf8(s[j])) = 2 })

\* The bytes of a Go string: the encodings of its characters, one after
\* the other.
Bytes(s) ==
  IF \A j \in DOMAIN s : Len(Utf8(s[j])) = 1 THEN s
  ELSE LET off == [i \in 1..(Len(s) + 1) |-> ByteOffset(s, i)]
       IN [k \in 1..off[Len(s) + 1] |->
             LET i == CHOOSE x \in DOMAIN s : off[x] < k /\ k <= off[x + 1]
             IN Utf8(s[i])[k - off[i]]]

\* The snippet of a result: len(snippet) and snippet[:200] count and cut
\* bytes: the first 200 bytes of the body, followed by "..." when the body
\* has more than 200 bytes.
SnippetLen == 200

Snippet(body) ==
  LET b == Bytes(body)
  IN IF Len(b) > SnippetLen
       THEN SubSeq(b, 1, SnippetLen) \o <<".", ".", ".">>
       ELSE b

\* One result row: emails JOIN accounts JOIN folders.
Summary(r) ==
  [id |-> r.id,
   account_name |-> (CHOOSE a \in accounts : a.id = r.account_id).name,
   folder_path |-> (CHOOSE f \in folders : f.id = r.folder_id).path,
   subject |-> r.subject, sender_name |-> r.sender_name,
   sender_email |-> r.sender_email, date |-> r.date,
   snippet |-> Snippet(r.body_text)]

RECURSIVE OrderByDateDesc(_)
\* ORDER BY e.date DESC: the orderings of a set of rows in which the
\* stored date never increases (rows with equal dates in any order).
OrderByDateDesc(rows) ==
  IF rows = {} THEN {<<>>}
  ELSE UNION { { <<r>> \o t : t \in OrderByDateDesc(rows \ {r}) } :
               r \in { x \in rows : \A y \in rows : DateTextLeq(y.date, x.date) } }

\* LIMIT n.
Truncate(seq, n) == IF Len(seq) > n THEN SubSeq(seq, 1, n) ELSE seq

\* The rows the query of Search selects, before ordering.
Selected(opts) ==
  { r \in emails :
      /\ \E a \in accounts : a.id = r.account_id
      /\ \E f \in folders : f.id = r.folder_id
      /\ Matches(r, opts, emails_fts) }

\* Store.Search: the outcomes of one call (an error, or one result
\* sequence for every ordering the query may produce).
Search(opts) ==
  IF \E q \in opts.Body : FtsSyntaxError(ReplaceQuotes(q))
    THEN { [err |-> "failed to search emails", limit |-> ClampLimit(opts.Limit),
            results |-> <<>>] }
    ELSE { [err |-> "", limit |-> ClampLimit(opts.Limit),
            results |-> [i \in DOMAIN t |-> Summary(t[i])]] :
           t \in { Truncate(o, ClampLimit(opts.Limit)) :
                   o \in OrderByDateDesc(Selected(opts)) } }

\* Store.Search called with the options given.
StoreSearch(opts) ==
  /\ \E out \in Search(opts) :
       last' = Outcome("Search", opts, out.err, out.limit, out.results)
  /\ UNCHANGED <<dbvars, SearchResultLimit, upserted, netvars>>

(***************************************************************************)
(* Tool search_emails (tools/search_emails.go).                            *)
(***************************************************************************)
\* The request without any parameter.  A text parameter that is missing
\* or empty is <<>>; a date or limit parameter is a set, empty when the
\* parameter is missing.
NoParams ==
  [account_name |-> "", folder |-> "", sender |-> <<>>, recipient |-> <<>>,
   subject |-> <<>>, body |-> <<>>, date_from |-> {}, date_to |-> {},
   limit |-> {}]

\* Store.GetAccountID: the ids of the account rows with that name (empty:
\* "account not found").
GetAccountID(name) == { a.id : a \in { x \in accounts : x.name = name } }

\* A pointer to the text v when the parameter is present and not "".
OptText(v) == IF v = <<>> THEN {} ELSE {v}

\* time.Parse(time.RFC3339, s) of a date parameter.
DateParseFails(dp) == \E d \in dp : ~d.valid

\* The SearchOptions Execute builds from the parameters.
BuildOptions(p) ==
  [AccountID |-> IF p.account_name # "" THEN GetAccountID(p.account_name) ELSE {},
   FolderID |-> {},
   Sender |-> OptText(p.sender),
   Recipient |-> OptText(p.recipient),
   Subject |-> OptText(p.subject),
   Body |-> OptText(p.body),
   DateFrom |-> { d.t : d \in p.date_from },
   DateTo |-> { d.t : d \in p.date_to },
   Limit |-> LET requested == IF p.limit = {} THEN 0
                              ELSE CHOOSE n \in p.limit : TRUE
             IN IF requested = 0 THEN SearchResultLimit ELSE requested]

\* SearchEmailsTool.Execute that also searches on the server of the first
\* account, through the handle of the registry.
SearchEmails_Remote(p) ==
  /\ IF DateParseFails(p.date_from)
       THEN last' = Outcome("search_emails", p, "invalid date_from format", 0, <<>>)
     ELSE IF DateParseFails(p.date_to)
       THEN last' = Outcome("search_emails", p, "invalid date_to format", 0, <<>>)
     ELSE \E out \in Search(BuildOptions(p)) :
            last' = Outcome("search_emails", p, out.err, out.limit, out.results)
  /\ server' = IF server.pc = "handle"
                 THEN [server EXCEPT !.pc = "encode", !.resp = @ + 1,
                                     !.active = @ \ {server.req}]
                 ELSE server
  /\ sessions' = IF clients[ConfiguredAccounts[1]].connected THEN sessions
                 ELSE Append(sessions, [account |-> ConfiguredAccounts[1],
                                        state |-> "up"])
  /\ Len(sessions') <= MaxSessions
  /\ clients' = [clients EXCEPT
                   ![ConfiguredAccounts[1]] =
                      IF @.connected THEN @
                      ELSE [client |-> Len(sessions'), connected |-> TRUE]]
  /\ trace' = <<[call |-> "search", folder |-> "INBOX", ok |-> TRUE]>>
  /\ UNCHANGED <<dbvars, SearchResultLimit, upserted>>

\* SearchEmailsTool.Execute.
SearchEmails(p) ==
  /\ IF DateParseFails(p.date_from)
       THEN last' = Outcome("search_emails", p, "invalid date_from format", 0, <<>>)
     ELSE IF DateParseFails(p.date_to)
       THEN last' = Outcome("search_emails", p, "invalid date_to format", 0, <<>>)
     ELSE \E out \in Search(BuildOptions(p)) :
            last' = Outcome("search_emails", p, out.err, out.limit, out.results)
  /\ Returned
  /\ UNCHANGED <<dbvars, SearchResultLimit, upserted, clients, sessions, trace>>

\* Store.SearchFTS applies the same default and maximum to its limit.
ClampLimitFTS(limit) ==
  IF limit <= 0 THEN 100
  ELSE IF limit > 1000 THEN 1000
  ELSE limit

\* SearchFTS without the condition on the account.
SelectedFTS_AnyAccount(query, accountID) ==
  { r \in emails :
      /\ \E a \in accounts : a.id = r.account_id
      /\ \E f \in folders : f.id = r.folder_id
      /\ r.id \in FtsMatch(emails_fts, ReplaceQuotes(query)) }

\* The rows the query of SearchFTS selects: the full-text predicate and,
\* when accountID is not nil, the account.
SelectedFTS(query, accountID) ==
  { r \in emails :
      /\ \E a \in accounts : a.id = r.account_id
      /\ \E f \in folders : f.id = r.folder_id
      /\ r.id \in FtsMatch(emails_fts, ReplaceQuotes(query))
      /\ \A a \in accountID : r.account_id = a }

\* Store.SearchFTS.
SearchFTS(query, accountID, limit) ==
  /\ IF FtsSyntaxError(ReplaceQuotes(query))
       THEN last' = Outcome("SearchFTS", <<query, accountID, limit>>,
                            "failed to perform FTS search",
                            ClampLimitFTS(limit), <<>>)
       ELSE \E o \in OrderByDateDesc(SelectedFTS(query, accountID)) :
              last' = Outcome("SearchFTS", <<query, accountID, limit>>, "",
                        ClampLimitFTS(limit),
                        LET t == Truncate(o, ClampLimitFTS(limit))
                        IN [i \in DOMAIN t |-> Summary(t[i])])
  /\ UNCHANGED <<dbvars, SearchResultLimit, upserted, netvars>>

(***************************************************************************)
(* The remote side: the mailboxes of the IMAP servers of the configured    *)
(* accounts.  A mailbox is the sequence of its messages in sequence-number *)
(* order; uids grow with the sequence number but differ from it once a     *)
(* message has been expunged.                                              *)
(***************************************************************************)
\* A message as the server holds it: its uid, its envelope and flags, and
\* the text and HTML parts of its content.
RawMessage(uid, subject, to, flags, text) ==
  [uid |-> uid, subject |-> subject, sender_name |-> <<>>,
   sender_email |-> <<"b", "@", "y">>, to |-> to, date |-> Date(uid, 0),
   flags |-> flags, text |-> text, html |-> <<>>]

RemoteFolders ==
  [work |-> <<"INBOX", "Sent">>, home |-> <<"INBOX">>]

RemoteMailbox ==
  [work |->
     [INBOX |-> << RawMessage(2, <<"A">>, << <<"b", "@", "x">> >>,
                              << <<"\\", "S">> >>, <<>>),
                   RawMessage(3, <<"B">>, << <<"a", "\"", "@", "x">>, <<"@">> >>,
                              <<>>, <<"d">>) >>,
      Sent |-> << RawMessage(1, <<"a", "b">>, << <<"0xFF", "@", "x">> >>,
                             <<>>, <<"c">>) >>],
   home |->
     [INBOX |-> << RawMessage(1, <<"A">>, <<>>, <<>>, <<"a">>) >>,
      Sent |-> <<>>]]

\* What the remote side does during one operation: the outcome of a
\* connect ("ok", "dial": the dial fails, "login": the login is
\* rejected), whether the folder listing succeeds, for every folder the
\* step of its processing that fails ("ok": none; "status": the select of
\* the status request; "upsert": the cache write of the folder or of the
\* repaired email; "select": the select of the fetch; "fetch": the fetch),
\* whether the fetch responses carry the content of the messages, and the
\* uids of the messages whose cache write fails during a synchronisation
\* (none, unless the environment is made with Failing).
Environment(connect, list, codes, bodies) ==
  [connect |-> connect, list |-> list, codes |-> codes, bodies |-> bodies,
   fails |-> {}]

\* The environment env in which the cache writes of the messages with the
\* uids given fail.
Failing(env, uids) == [env EXCEPT !.fails = uids]

StepCodes == {"ok", "status", "upsert", "select", "fetch"}

(***************************************************************************)
(* IMAP handles (imap_client.go).  An operation works on a record st of    *)
(* the database db, the handle h in use, the sessions and the trace of     *)
(* the calls it has made.                                                  *)
(***************************************************************************)
Call(name, folder, ok) == [call |-> name, folder |-> folder, ok |-> ok]

Traced(st, c) == [st EXCEPT !.trace = Append(@, c)]

\* The session of the handle is established and has not been torn down.
SessionUp(st) ==
  /\ st.h.client # 0
  /\ st.sessions[st.h.client].state = "up"

\* Connect that dials whatever the state of the handle.
Connect_AlwaysDial(st, name, outcome) ==
  IF outcome = "dial"
    THEN [st |-> Traced(st, Call("dial", "", FALSE)),
          err |-> "failed to connect to IMAP server"]
  ELSE IF outcome = "login"
    THEN [st |-> [st EXCEPT
                    !.sessions = Append(@, [account |-> name, state |-> "closed"]),
                    !.h = [@ EXCEPT !.client = 0],
                    !.trace = @ \o << Call("dial", "", TRUE),
                                      Call("login", "", FALSE),
                                      Call("logout", "", TRUE) >>],
          err |-> "failed to login to IMAP server"]
  ELSE [st |-> [st EXCEPT
                  !.sessions = Append(@, [account |-> name, state |-> "up"]),
                  !.h = [client |-> Len(st.sessions) + 1, connected |-> TRUE],
                  !.trace = @ \o << Call("dial", "", TRUE),
                                    Call("login", "", TRUE) >>],
        err |-> ""]

\* IMAPClient.Connect: nothing when the handle is connected; otherwise
\* dial, then log in; a rejected login logs out and drops the client.
Connect(st, name, outcome) ==
  IF st.h.connected /\ st.h.client # 0
    THEN [st |-> st, err |-> ""]
  ELSE IF outcome = "dial"
    THEN [st |-> Traced(st, Call("dial", "", FALSE)),
          err |-> "failed to connect to IMAP server"]
  ELSE IF outcome = "login"
    THEN [st |-> [st EXCEPT
                    !.sessions = Append(@, [account |-> name, state |-> "closed"]),
                    !.h = [@ EXCEPT !.client = 0],
                    !.trace = @ \o << Call("dial", "", TRUE),
                                      Call("login", "", FALSE),
                                      Call("logout", "", TRUE) >>],
          err |-> "failed to login to IMAP server"]
  ELSE [st |-> [st EXCEPT
                  !.sessions = Append(@, [account |-> name, state |-> "up"]),
                  !.h = [client |-> Len(st.sessions) + 1, connected |-> TRUE],
                  !.trace = @ \o << Call("dial", "", TRUE),
                                    Call("login", "", TRUE) >>],
        err |-> ""]

\* The logout of the session of an account, as a remote call.
Logout(name, ok) ==
  [call |-> "logout", folder |-> "", ok |-> ok, account |-> name]

\* IMAPClient.Close: nothing for a handle without a client; otherwise
\* Logout, which fails on a session that is down; a failed Logout returns
\* the error and leaves the handle as it is, a successful one ends the
\* session, drops the client and resets connected.
Close(st, name) ==
  IF st.h.client = 0 THEN [st |-> st, err |-> ""]
  ELSE IF ~SessionUp(st)
    THEN [st |-> Traced(st, Logout(name, FALSE)), err |-> "logout failed"]
  ELSE [st |-> [st EXCEPT
                  !.sessions = [@ EXCEPT ![st.h.client].state = "closed"],
                  !.h = NewIMAPClient,
                  !.trace = Append(@, Logout(name, TRUE))],
        err |-> ""]

\* IMAPClient.ListFolders after its Connect, whose result is c.
ListConnected(c, name, env) ==
  LET ok == env.list /\ SessionUp(c.st)
  IN IF c.err # "" THEN [st |-> c.st, folders |-> <<>>, err |-> c.err]
     ELSE [st |-> Traced(c.st, Call("list", "", ok)),
           folders |-> IF ok THEN RemoteFolders[name] ELSE <<>>,
           err |-> IF ok THEN "" ELSE "failed to list folders"]

\* IMAPClient.ListFolders.
ListFolders(st, name, env) ==
  ListConnected(Connect(st, name, env.connect), name, env)

\* client.Select(folderName, false): the mailbox status, or an error.
Select(st, name, folder, succeeds) ==
  LET ok == /\ succeeds
            /\ SessionUp(st)
            /\ \E i \in DOMAIN RemoteFolders[name] : RemoteFolders[name][i] = folder
  IN [st |-> Traced(st, Call("select", folder, ok)),
      Messages |-> IF ok THEN Len(RemoteMailbox[name][folder]) ELSE 0,
      err |-> IF ok THEN "" ELSE "failed to select folder"]

\* IMAPClient.GetFolderStatus after its Connect, whose result is c.
StatusConnected(c, name, folder, env) ==
  IF c.err # "" THEN [st |-> c.st, Messages |-> 0, err |-> c.err]
  ELSE Select(c.st, name, folder, env.codes[folder] # "status")

\* IMAPClient.GetFolderStatus.
GetFolderStatus(st, name, folder, env) ==
  StatusConnected(Connect(st, name, env.connect), name, folder, env)

\* The RFC 822 text of a message with a plain-text part and an HTML part:
\* each part follows its header, which is one character of the text here.
RFC822(text, html) == <<"text:">> \o text \o <<"html:">> \o html

\* The position of the first occurrence of the character c in s, 0 when
\* there is none.
IndexOf(s, c) ==
  IF \E i \in DOMAIN s : s[i] = c
    THEN CHOOSE i \in DOMAIN s : s[i] = c /\ \A j \in 1..(i - 1) : s[j] # c
    ELSE 0

\* enmime.ReadEnvelope: the text and the HTML of the parts, or an error for
\* bytes that are not a message.
ReadEnvelope(bytes) ==
  IF bytes # <<>> /\ bytes[1] = "text:" /\ IndexOf(bytes, "html:") # 0
    THEN [Text |-> SubSeq(bytes, 2, IndexOf(bytes, "html:") - 1),
          HTML |-> SubSeq(bytes, IndexOf(bytes, "html:") + 1, Len(bytes)),
          err |-> FALSE]
    ELSE [Text |-> <<>>, HTML |-> <<>>, err |-> TRUE]

\* An address of an envelope, of the mailbox address local@host.
EnvelopeAddress(name, addr) ==
  [PersonalName |-> name,
   MailboxName |-> SubSeq(addr, 1, IndexOf(addr, "@") - 1),
   HostName |-> SubSeq(addr, IndexOf(addr, "@") + 1, Len(addr))]

\* imap.Address.Address.
Address(a) == a.MailboxName \o <<"@">> \o a.HostName

\* The keys of msg.Body are pointers.  NilKey is the nil pointer; a section
\* name the client library has parsed from a response is a pointer of its
\* own; EmptySection is the pointer parseMessage makes with
\* &imap.BodySectionName{}, which is no key of any map.
NilKey == "nil"
EmptySection == "new"

\* An entry of msg.Body: its key, the section named and the literal.
Section(key, name, bytes) == [key |-> key, section |-> name, bytes |-> bytes]

\* The message the client library hands to parseMessage for a message of
\* the server.  The response to the RFC822 item is the section with the
\* empty name; without content the map is empty.
Fetched(msg, bodies) ==
  [Uid |-> msg.uid,
   Envelope |-> [MessageId |-> <<"i", "d">>, Subject |-> msg.subject,
                 Date |-> msg.date,
                 From |-> << EnvelopeAddress(msg.sender_name, msg.sender_email) >>,
                 To |-> [i \in DOMAIN msg.to |-> EnvelopeAddress(<<>>, msg.to[i])],
                 Cc |-> <<>>, Bcc |-> <<>>],
   Flags |-> msg.flags,
   Body |-> { IF bodies
                THEN << Section("p1", "", RFC822(msg.text, msg.html)) >>
                ELSE <<>> }]

\* parseMessage, method 3: the sections are visited in the order of the
\* map iteration, which is the order of the sequence body, up to the first
\* literal that is not empty.
AnySection(body) ==
  IF \E i \in DOMAIN body : body[i].bytes # <<>>
    THEN body[CHOOSE i \in DOMAIN body :
                /\ body[i].bytes # <<>>
                /\ \A j \in 1..(i - 1) : body[j].bytes = <<>>].bytes
    ELSE <<>>

\* The literal of the map found under a key.
Found(body, key) == { body[i].bytes : i \in { j \in DOMAIN body : body[j].key = key } }

\* parseMessage, the content bytes: the literal under the nil key when the
\* map has that key, else the literal under EmptySection when the map has
\* that key, else method 3.
BodyBytes(body) ==
  IF Found(body, NilKey) # {} THEN CHOOSE b \in Found(body, NilKey) : TRUE
  ELSE IF Found(body, EmptySection) # {}
    THEN CHOOSE b \in Found(body, EmptySection) : TRUE
  ELSE AnySection(body)

\* parseMessage leaving the bodies empty when enmime fails.
Decoded_Discard(bytes, env) ==
  IF env.err THEN [text |-> <<>>, html |-> <<>>]
  ELSE [text |-> env.Text, html |-> env.HTML]

\* parseMessage, the bodies decoded from content bytes that are not empty:
\* those of enmime, or the raw bytes as the text when enmime fails.
Decoded(bytes, env) ==
  IF env.err THEN [text |-> bytes, html |-> <<>>]
  ELSE [text |-> env.Text, html |-> env.HTML]

\* parseMessage, the bodies for the content bytes.
Bodies(bytes) ==
  IF bytes = <<>> THEN [text |-> <<>>, html |-> <<>>]
  ELSE Decoded(bytes, ReadEnvelope(bytes))

\* parseMessage, the bodies of a message: empty for a nil map.
BodiesOf(msg) ==
  IF msg.Body = {} THEN [text |-> <<>>, html |-> <<>>]
  ELSE Bodies(BodyBytes(CHOOSE b \in msg.Body : TRUE))

\* parseMessage taking the recipients from the To addresses only.
Recipients_ToOnly(env) == [i \in DOMAIN env.To |-> Address(env.To[i])]

\* parseMessage, the recipients: the To, the Cc and the Bcc addresses are
\* appended in three loops.
Recipients(env) ==
  [i \in DOMAIN env.To |-> Address(env.To[i])]
  \o [i \in DOMAIN env.Cc |-> Address(env.Cc[i])]
  \o [i \in DOMAIN env.Bcc |-> Address(env.Bcc[i])]

\* parseMessage, the record with the bodies given.  The headers are never
\* filled.
Parsed(msg, bodies) ==
  [uid |-> msg.Uid, message_id |-> msg.Envelope.MessageId,
   subject |-> msg.Envelope.Subject,
   sender_name |-> IF msg.Envelope.From # <<>>
                     THEN msg.Envelope.From[1].PersonalName ELSE <<>>,
   sender_email |-> IF msg.Envelope.From # <<>>
                      THEN Address(msg.Envelope.From[1]) ELSE <<>>,
   recipients |-> Recipients(msg.Envelope),
   date |-> msg.Envelope.Date,
   body_text |-> bodies.text, body_html |-> bodies.html,
   headers |-> <<>>, flags |-> msg.Flags]

\* IMAPClient.parseMessage: the Email of a fetched message.
parseMessage(msg) == Parsed(msg, BodiesOf(msg))

\* FetchEmails leaving out the messages without content.
Collect_SkipBodyless(msgs) ==
  LET kept == SelectSeq(msgs, LAMBDA m : BodiesOf(m) # [text |-> <<>>, html |-> <<>>])
  IN [k \in DOMAIN kept |-> parseMessage(kept[k])]

\* IMAPClient.FetchEmails, the loop over the messages received: each is
\* parsed and appended.
Collect(msgs) == [k \in DOMAIN msgs |-> parseMessage(msgs[k])]

\* The default window of a fetch: the last 100 messages of the mailbox.
FetchWindow == 100

\* A uint32 is kept as two halves of 16 bits, so that every value of the
\* type can be written and its arithmetic wraps at 32 bits.
Limb == 2^16
U32(hi, lo) == [hi |-> hi, lo |-> lo]
ToU32(n) == U32((n \div Limb) % Limb, n % Limb)
Value(u) == u.hi * Limb + u.lo
Zero32 == U32(0, 0)

\* a > b on uint32.
Gt32(a, b) == a.hi > b.hi \/ (a.hi = b.hi /\ a.lo > b.lo)

\* a - b on uint32: the difference modulo 2^32.
Sub32(a, b) ==
  U32((a.hi - b.hi - (IF a.lo < b.lo THEN 1 ELSE 0) + Limb) % Limb,
      (a.lo - b.lo + Limb) % Limb)

\* FetchEmails subtracting 99 from the message count whatever the count.
SeqRange_Unguarded(messages, from, to) ==
  IF from = Zero32 /\ to = Zero32
  THEN [start |-> Sub32(messages, ToU32(FetchWindow - 1)), stop |-> messages]
  ELSE [start |-> from, stop |-> to]

\* IMAPClient.FetchEmails, the sequence range added to the set: from:to,
\* and for from = to = 0 the range that ends at the message count and
\* starts 99 below it when the count is above 100, at 1 otherwise.
SeqRange(messages, from, to) ==
  IF from = Zero32 /\ to = Zero32
  THEN [start |-> IF Gt32(messages, ToU32(FetchWindow))
                    THEN Sub32(messages, ToU32(FetchWindow - 1))
                    ELSE ToU32(1),
        stop |-> messages]
  ELSE [start |-> from, stop |-> to]

\* IMAPClient.FetchEmails with from = to = 0 on a mailbox for which Select
\* reports the message count given: whether a FETCH is sent, and its range.
DefaultFetch(messages) ==
  IF messages = Zero32
  THEN [fetch |-> FALSE, start |-> Zero32, stop |-> Zero32]
  ELSE [fetch |-> TRUE,
        start |-> SeqRange(messages, Zero32, Zero32).start,
        stop |-> SeqRange(messages, Zero32, Zero32).stop]

\* IMAPClient.FetchEmails after its Select, whose result is s: FETCH the
\* messages whose sequence numbers are in from..to (the last 100 when
\* from = to = 0).  The trace holds the fetch call and one entry per
\* message received.
FetchSelected(s, name, folder, from, to, env) ==
  LET lo == Value(SeqRange(ToU32(s.Messages), ToU32(from), ToU32(to)).start)
      hi == Value(SeqRange(ToU32(s.Messages), ToU32(from), ToU32(to)).stop)
      ok == env.codes[folder] # "fetch" /\ SessionUp(s.st)
      box == RemoteMailbox[name][folder]
      seqs == { i \in DOMAIN box : lo <= i /\ i <= hi }
      first == IF seqs = {} THEN 1 ELSE CHOOSE i \in seqs : \A j \in seqs : i <= j
  IN IF s.err # "" THEN [st |-> s.st, emails |-> <<>>, err |-> s.err]
     ELSE IF s.Messages = 0 THEN [st |-> s.st, emails |-> <<>>, err |-> ""]
     ELSE IF ~ok THEN [st |-> Traced(s.st, Call("fetch", folder, FALSE)),
                       emails |-> <<>>, err |-> "failed to fetch messages"]
     ELSE [st |-> [s.st EXCEPT
                     !.trace = @ \o << Call("fetch", folder, TRUE) >>
                                 \o [k \in 1..Cardinality(seqs) |->
                                       Call("message", folder, TRUE)]],
           emails |-> Collect([k \in 1..Cardinality(seqs) |->
                                 Fetched(box[first + k - 1], env.bodies)]),
           err |-> ""]

\* IMAPClient.FetchEmails after its Connect, whose result is c.
FetchConnected(c, name, folder, from, to, env) ==
  IF c.err # "" THEN [st |-> c.st, emails |-> <<>>, err |-> c.err]
  ELSE FetchSelected(Select(c.st, name, folder, env.codes[folder] # "select"),
                     name, folder, from, to, env)

\* IMAPClient.FetchEmails.
FetchEmails(st, name, folder, from, to, env) ==
  FetchConnected(Connect(st, name, env.connect), name, folder, from, to, env)

(***************************************************************************)
(* Synchronisation engine (manager.go).                                    *)
(***************************************************************************)
\* GetAccount falling back to the first configured account for a name
\* that is not registered.
GetAccount_Default(name) ==
  IF name \in AccountNames THEN {name} ELSE {ConfiguredAccounts[1]}

\* AccountManager.GetAccount: the account registered under the name, or
\* none.
GetAccount(name) == IF name \in AccountNames THEN {name} ELSE {}

\* The call of Store.UpsertFolder by syncFolder, as an entry of the trace:
\* the account id passed and the folder id returned.
FolderCall(folder, accountID, row) ==
  [call |-> "UpsertFolder", folder |-> folder, ok |-> row.err = "",
   account_id |-> accountID, id |-> row.id]

\* A call of Store.UpsertEmail by syncFolder, as an entry of the trace: the
\* account id and the folder id set on the email, and its uid.
EmailCall(folder, accountID, folderID, uid, r) ==
  [call |-> "UpsertEmail", folder |-> folder, ok |-> r.err = "",
   account_id |-> accountID, folder_id |-> folderID, uid |-> uid]

\* Store.UpsertEmail of a fetched email in the environment env.
SyncUpsertEmail(db, accountID, folderID, m, env) ==
  IF m.uid \in env.fails THEN [db |-> db, err |-> "failed to upsert email"]
  ELSE StoreUpsertEmail(db, accountID, folderID, m.uid, m)

\* syncFolder after a call of Store.UpsertEmail, whose result is r.
EmailUpserted(st, r, call) == [st EXCEPT !.db = r.db, !.trace = Append(@, call)]

RECURSIVE UpsertAll_AbortOnFailure(_, _, _, _, _, _)
\* The loop over the fetched emails left at the first upsert that fails.
UpsertAll_AbortOnFailure(st, accountID, folderID, folder, es, env) ==
  IF es = <<>> THEN st
  ELSE IF SyncUpsertEmail(st.db, accountID, folderID, Head(es), env).err # ""
    THEN st
  ELSE UpsertAll_AbortOnFailure(
         EmailUpserted(st, SyncUpsertEmail(st.db, accountID, folderID, Head(es), env),
                       EmailCall(folder, accountID, folderID, Head(es).uid,
                                 SyncUpsertEmail(st.db, accountID, folderID,
                                                 Head(es), env))),
         accountID, folderID, folder, Tail(es), env)

RECURSIVE UpsertAll(_, _, _, _, _, _)
\* syncFolder, the loop over the fetched emails: each is upserted under
\* the account id and the folder id; a failed upsert is logged and skipped.
UpsertAll(st, accountID, folderID, folder, es, env) ==
  IF es = <<>> THEN st
  ELSE UpsertAll(
         EmailUpserted(st, SyncUpsertEmail(st.db, accountID, folderID, Head(es), env),
                       EmailCall(folder, accountID, folderID, Head(es).uid,
                                 SyncUpsertEmail(st.db, accountID, folderID,
                                                 Head(es), env))),
         accountID, folderID, folder, Tail(es), env)

\* Manager.syncFolder after FetchEmails, whose result is fetched.
syncFetched(fetched, accountID, folderID, folder, env) ==
  IF fetched.err # ""
    THEN [st |-> fetched.st, err |-> "failed to fetch emails"]
  ELSE [st |-> UpsertAll(fetched.st, accountID, folderID, folder,
                         fetched.emails, env),
        err |-> ""]

\* Manager.syncFolder after UpsertFolder, whose result is row.
syncUpserted(st, row, name, accountID, folder, env) ==
  IF row.err # ""
    THEN [st |-> Traced(st, FolderCall(folder, accountID, row)),
          err |-> "failed to upsert folder"]
  ELSE syncFetched(FetchEmails(Traced([st EXCEPT !.db = row.db],
                                      FolderCall(folder, accountID, row)),
                               name, folder, 0, 0, env),
                   accountID, row.id, folder, env)

\* Manager.syncFolder after GetFolderStatus, whose result is status.
syncStatus(status, name, accountID, folder, env) ==
  IF status.err # ""
    THEN [st |-> status.st, err |-> "failed to get folder status"]
  ELSE syncUpserted(status.st,
                    IF env.codes[folder] = "upsert"
                      THEN [db |-> status.st.db, id |-> 0,
                            err |-> "failed to upsert folder"]
                      ELSE StoreUpsertFolder(status.st.db, accountID, folder,
                                             status.Messages),
                    name, accountID, folder, env)

\* Manager.syncFolder.
syncFolder(st, name, accountID, folder, env) ==
  syncStatus(GetFolderStatus(st, name, folder, env), name, accountID, folder, env)

RECURSIVE SyncFolders_AbortOnFailure(_, _, _, _, _)
\* SyncFolders leaving the loop at the first folder that fails.
SyncFolders_AbortOnFailure(st, name, accountID, fs, env) ==
  IF fs = <<>> THEN st
  ELSE LET r == syncFolder(st, name, accountID, Head(fs), env)
       IN IF r.err # "" THEN r.st
          ELSE SyncFolders_AbortOnFailure(r.st, name, accountID, Tail(fs), env)

RECURSIVE SyncFolders(_, _, _, _, _)
\* SyncAccount, the loop over the listed folders: the error of a folder is
\* logged and the loop goes on.
SyncFolders(st, name, accountID, fs, env) ==
  IF fs = <<>> THEN st
  ELSE SyncFolders(syncFolder(st, name, accountID, Head(fs), env).st,
                   name, accountID, Tail(fs), env)

\* The error SyncAccount returns when the folder listing failed with err.
ListError_Swallowed(err) == ""

ListError(err) == IF err # "" THEN "failed to list folders" ELSE ""

\* Manager.SyncAccount with no folder named, after ListFolders, whose
\* result is listed.
SyncListed(listed, name, accountID, env) ==
  IF listed.err # "" THEN [st |-> listed.st, err |-> ListError(listed.err)]
  ELSE [st |-> SyncFolders(listed.st, name, accountID, listed.folders, env),
        err |-> ""]

\* Manager.SyncAccount with a folder named, after syncFolder, whose result
\* is one.
SyncNamed(one) ==
  [st |-> one.st, err |-> IF one.err # "" THEN "failed to sync folder" ELSE ""]

\* The handle of the account is shared with the registry: what the pass
\* did to it stays.
KeepHandle(done, name) ==
  [st |-> [done.st EXCEPT !.clients = [@ EXCEPT ![name] = done.st.h]],
   err |-> done.err]

\* The orders in which a range over the map of the registry can visit the
\* accounts.
MapOrders ==
  { o \in [1..Cardinality(AccountNames) -> AccountNames] :
      \A i, j \in DOMAIN o : o[i] = o[j] => i = j }

RECURSIVE CloseEach_StopOnError(_, _)
\* CloseEach leaving the loop at the first Close that fails.
CloseEach_StopOnError(st, names) ==
  IF names = <<>> THEN st
  ELSE LET r == KeepHandle(Close([st EXCEPT !.h = st.clients[Head(names)]],
                                 Head(names)),
                           Head(names))
       IN IF r.err # "" THEN r.st
          ELSE CloseEach_StopOnError(r.st, Tail(names))

RECURSIVE CloseEach(_, _)
\* AccountManager.Close, the loop over the accounts: the handle of each is
\* closed and the error of Close is dropped.
CloseEach(st, names) ==
  IF names = <<>> THEN st
  ELSE CloseEach(KeepHandle(Close([st EXCEPT !.h = st.clients[Head(names)]],
                                  Head(names)),
                            Head(names)).st,
                 Tail(names))

\* Store.GetAccountID on a database value.
StoreGetAccountID(db, name) ==
  { a.id : a \in { x \in db.accounts : x.name = name } }

\* Manager.SyncAccount once the account id is known: acc is the result of
\* the lookup or of the upsert.
SyncCached(st, acc, name, folderName, env) ==
  KeepHandle(
    IF folderName = ""
      THEN SyncListed(ListFolders([st EXCEPT !.db = acc.db, !.h = st.clients[name]],
                                  name, env),
                      name, acc.id, env)
      ELSE SyncNamed(syncFolder([st EXCEPT !.db = acc.db, !.h = st.clients[name]],
                                name, acc.id, folderName, env)),
    name)

\* Manager.SyncAccount for a registered account: the account row is
\* upserted only when GetAccountID finds none.
SyncRegistered(st, name, folderName, env) ==
  SyncCached(st,
             IF StoreGetAccountID(st.db, name) # {}
               THEN [db |-> st.db,
                     id |-> CHOOSE i \in StoreGetAccountID(st.db, name) : TRUE,
                     err |-> ""]
               ELSE StoreUpsertAccount(st.db, AccountConfig(name)),
             name, folderName, env)

\* Manager.SyncAccount.
DoSyncAccount(st, accountName, folderName, env) ==
  IF GetAccount(accountName) = {} THEN [st |-> st, err |-> "account not found"]
  ELSE SyncRegistered(st, CHOOSE n \in GetAccount(accountName) : TRUE,
                      folderName, env)

\* The state an operation starts from: the cache, the registry, the
\* sessions, and an empty trace.
Start ==
  [db |-> DB, clients |-> clients, h |-> NewIMAPClient, sessions |-> sessions,
   trace |-> <<>>]

\* The state an operation ends in.
Finish(st) ==
  /\ SetDB(st.db)
  /\ clients' = st.clients
  /\ sessions' = st.sessions
  /\ trace' = st.trace

(***************************************************************************)
(* Tool get_email (tools/get_email.go).                                    *)
(***************************************************************************)
\* GetEmail returning no record and no error for an id without a row.
GetEmailError_Nil(found) == ""

\* Store.GetEmail: sql.ErrNoRows becomes the error "email not found".
GetEmailError(found) == IF found = {} THEN "email not found" ELSE ""

\* get_email returning the error of a failed re-fetch.
RepairError_Returned(err) == err

\* get_email, the repair path: an error is logged, never returned.
RepairError(err) == ""

\* The Email an upsert writes for a record GetEmail has returned.
AsMessage(e) ==
  [uid |-> e.uid, subject |-> e.subject, sender_name |-> e.sender_name,
   sender_email |-> e.sender_email, recipients |-> e.recipients,
   date |-> e.date, body_text |-> e.body_text, body_html |-> e.body_html,
   headers |-> e.headers, flags |-> e.flags]

Bodyless(e) == e.body_text = <<>> /\ e.body_html = <<>>

\* The cached record with the bodies and the headers of the email e.
Repaired(cached, e) ==
  [cached EXCEPT !.body_text = e.body_text, !.body_html = e.body_html,
                 !.headers = e.headers]

\* GetEmailTool.Execute, the cache update: UpsertEmail of the repaired
\* record; a failure is logged.
Rewrite(st, repaired, env) ==
  [st |-> [st EXCEPT
             !.db = IF env.codes[repaired.folder_path] = "upsert" THEN @
                    ELSE StoreUpsertEmail(@, repaired.account_id,
                                          repaired.folder_id, repaired.uid,
                                          AsMessage(repaired)).db],
   email |-> {repaired}, err |-> ""]

\* GetEmailTool.Execute after FetchEmails, whose result is fetched.  The
\* handle of the repair is dropped when Execute returns.
Repair(cached, fetched, env) ==
  IF fetched.err # ""
    THEN [st |-> [fetched.st EXCEPT !.h = NewIMAPClient], email |-> {cached},
          err |-> RepairError(fetched.err)]
  ELSE IF fetched.emails = <<>>
    THEN [st |-> [fetched.st EXCEPT !.h = NewIMAPClient], email |-> {cached},
          err |-> ""]
  ELSE Rewrite([fetched.st EXCEPT !.h = NewIMAPClient],
               Repaired(cached, fetched.emails[1]), env)

\* GetEmailTool.Execute once the record is read: the repair path is taken
\* when both bodies are empty, on a handle made by NewIMAPClient.
GetCached(st, cached, env) ==
  IF ~Bodyless(cached) THEN [st |-> st, email |-> {cached}, err |-> ""]
  ELSE IF cached.account_name \notin AccountNames
    THEN [st |-> st, email |-> {cached}, err |-> ""]
  ELSE Repair(cached,
              FetchEmails([st EXCEPT !.h = NewIMAPClient], cached.account_name,
                          cached.folder_path, cached.uid, cached.uid, env),
              env)

\* GetEmailTool.Execute after Store.GetEmail, whose result is found.
GetFound(st, found, env) ==
  IF GetEmailError(found) # ""
    THEN [st |-> st, email |-> {}, err |-> "failed to get email"]
  ELSE IF found = {} THEN [st |-> st, email |-> {}, err |-> ""]
  ELSE GetCached(st, CHOOSE e \in found : TRUE, env)

\* GetEmailTool.Execute.
DoGetEmail(st, emailID, env) ==
  GetFound(st, GetEmail(st.db.emails, emailID), env)

\* The environments of an operation: at most one kind of fault at a time
\* (a failed connect, a failed listing, failing steps of folders, fetch
\* responses without content).
AllOk == [f \in FolderPaths |-> "ok"]

Environments ==
  { Environment("ok", TRUE, [AllOk EXCEPT ![f] = c], TRUE) :
      f \in FolderPaths, c \in StepCodes }
  \cup { Environment(c, TRUE, AllOk, TRUE) : c \in {"dial", "login"} }
  \cup { Environment("ok", FALSE, AllOk, TRUE), Environment("ok", TRUE, AllOk, FALSE) }

\* A name no account is registered under.
UnknownAccount == "other"

\* The environments in which nothing fails: the fetch responses carry the
\* content of the messages, or they do not.
QuietEnvironments ==
  { Environment("ok", TRUE, AllOk, b) : b \in BOOLEAN }

\* The end of a SyncAccount call whose result is r, in a run of at most
\* maxFolderSeq folder upserts.
SyncAccountWithin(r, accountName, folderName, maxFolderSeq) ==
  /\ r.st.db.sqlite_sequence.folders <= maxFolderSeq
  /\ r.st.db.sqlite_sequence.emails <= MaxSyncEmailSeq
  /\ Len(r.st.sessions) <= MaxSessions
  /\ Finish(r.st)
  /\ last' = Outcome("SyncAccount", <<accountName, folderName>>, r.err, 0, <<>>)
  /\ Returned
  /\ UNCHANGED <<SearchResultLimit, upserted>>

\* The end of a SyncAccount call whose result is r.
SyncAccountDone(r, accountName, folderName) ==
  SyncAccountWithin(r, accountName, folderName, MaxSyncFolderSeq)

\* The tool sync_emails / a background pass: Manager.SyncAccount, in one of
\* the environments envs.
SyncAccount(accountName, folderName, envs) ==
  \E env \in envs :
    SyncAccountDone(DoSyncAccount(Start, accountName, folderName, env),
                    accountName, folderName)

\* Manager.SyncAccount of one folder in a run in which folders are
\* synchronised again.
Resync(accountName, folderName, envs) ==
  \E env \in envs :
    SyncAccountWithin(DoSyncAccount(Start, accountName, folderName, env),
                      accountName, folderName, MaxResyncFolderSeq)

\* The end of a get_email call whose result is r.
GetEmailDone(r, emailID) ==
  /\ r.st.db.sqlite_sequence.emails <= MaxSyncEmailSeq
  /\ Len(r.st.sessions) <= MaxSessions
  /\ Finish(r.st)
  /\ last' = Outcome("get_email", emailID,
                     IF r.email = {} /\ r.err = "" THEN "nil" ELSE r.err, 0,
                     IF r.email = {} THEN <<>>
                     ELSE << CHOOSE e \in r.email : TRUE >>)
  /\ Returned
  /\ UNCHANGED <<SearchResultLimit, upserted>>

\* The tool get_email.
GetEmailTool(emailID) ==
  \E env \in Environments : GetEmailDone(DoGetEmail(Start, emailID, env), emailID)

\* The program runs until main returns, which closes the manager.
Running == last.op # "Close"

\* The end of Manager.Close, which leaves the state st and returns nil.
CloseDone(st) ==
  /\ Finish(st)
  /\ last' = Outcome("Close", <<>>, "", 0, <<>>)
  /\ UNCHANGED <<SearchResultLimit, upserted, server>>

\* main's deferred Manager.Close, that is AccountManager.Close.
CloseAll == \E order \in MapOrders : CloseDone(CloseEach(Start, order))

\* The remote side or the network ends an established session; the handle
\* that holds it is not told.
Drop(i) ==
  /\ i \in DOMAIN sessions
  /\ sessions[i].state = "up"
  /\ sessions' = [sessions EXCEPT ![i].state = "down"]
  /\ trace' = <<>>
  /\ last' = Outcome("drop", i, "", 0, <<>>)
  /\ UNCHANGED <<dbvars, SearchResultLimit, upserted, clients, server>>

\* The messages of one fetch are parsed.
Parse(msgs) ==
  /\ last' = Outcome("parseMessage", msgs, "", 0, Collect(msgs))
  /\ UNCHANGED <<dbvars, SearchResultLimit, upserted, netvars>>

\* FetchEmails(folder, 0, 0), as syncFolder calls it, on a mailbox of the
\* size given.
FetchDefault(messages) ==
  /\ last' = Outcome("FetchEmails", messages, "", 0, DefaultFetch(messages))
  /\ UNCHANGED <<dbvars, SearchResultLimit, upserted, netvars>>

(***************************************************************************)
(* The request loop (mcp/server.go).                                       *)
(***************************************************************************)
\* A loop that hands every request to a handler of its own and reads on.
CanDecode_Concurrent(srv) == srv.pc \in {"decode", "handle", "encode"}

\* Server.Run reads the next request at the top of its loop only:
\* handleRequest is called in the loop and the loop goes on when it has
\* returned and the response has been encoded.
CanDecode(srv) == srv.pc = "decode"

\* Server.Run, decoder.Decode: a request is read and handleRequest is
\* called with it.
Decode ==
  /\ CanDecode(server)
  /\ server.req < MaxRequests
  /\ server' = [server EXCEPT !.pc = "handle", !.req = @ + 1,
                              !.active = @ \cup {server.req + 1}]
  /\ UNCHANGED <<dbvars, SearchResultLimit, upserted, last, clients,
                 sessions, trace>>

\* handleRequest for initialize, tools/list, an unknown method or an
\* unknown tool: a response is built and no tool runs.
NoTool ==
  /\ server.pc = "handle"
  /\ server' = Respond(server)
  /\ UNCHANGED <<dbvars, SearchResultLimit, upserted, last, clients,
                 sessions, trace>>

\* handleRequest for tools/call: the tool named is executed.
CallTool ==
  /\ server.pc = "handle"
  /\ \/ SearchEmails(NoParams)
     \/ \E emailID \in 1..MaxSyncEmailSeq : GetEmailTool(emailID)
     \/ \E name \in AccountNames :
          SyncAccount(name, "INBOX", QuietEnvironments)

\* Server.Run, encoder.Encode: the response is written, or the write fails
\* and is logged; the loop goes on either way.
Encode ==
  /\ server.pc = "encode"
  /\ \E ok \in BOOLEAN :
       server' = [server EXCEPT !.pc = "decode",
                                !.sent = IF ok THEN @ + 1 ELSE @]
  /\ UNCHANGED <<dbvars, SearchResultLimit, upserted, last, clients,
                 sessions, trace>>

\* Server.Run returns: the context is done or the input has ended.
Return ==
  /\ server.pc = "decode"
  /\ server' = [server EXCEPT !.pc = "done"]
  /\ UNCHANGED <<dbvars, SearchResultLimit, upserted, last, clients,
                 sessions, trace>>

(***************************************************************************)
(* Requests.                                                               *)
(***************************************************************************)
\* Requested limits: negative, zero, in range, the maximum, above it.
RequestedLimits == {-1, 0, 1, 1000, 1001, 5000}

LimitParams ==
  {NoParams} \cup { [NoParams EXCEPT !.limit = {n}] : n \in RequestedLimits }

\* Date parameters: RFC 3339 texts that parse, and one that does not.
ValidDate(w, o) == [valid |-> TRUE, t |-> Date(w, o)]
BadDate == [valid |-> FALSE, t |-> Date(0, 0)]

FilterParams ==
  { [NoParams EXCEPT !.account_name = n] : n \in {"work", "home", "other"} }
  \cup { [NoParams EXCEPT !.folder = f] : f \in FolderPaths }
  \cup { [NoParams EXCEPT !.sender = v] :
         v \in { <<"A", "n", "n">>, <<"b", "@", "y">> } }
  \cup { [NoParams EXCEPT !.recipient = v] :
         v \in { <<"b", "@", "x">>, <<"c">> } }
  \cup { [NoParams EXCEPT !.subject = v] :
         v \in { <<"B">>, <<"a">>, <<"%">> } }
  \cup { [NoParams EXCEPT !.body = v] :
         v \in { <<"a", "b">>, <<"c">>, <<"d">>, <<"e">>, <<"c", " ", "a", "b">>,
                 <<"%">> } }
  \cup { [NoParams EXCEPT !.date_from = {d}] : d \in {ValidDate(2, 0), BadDate} }
  \cup { [NoParams EXCEPT !.date_to = {d}] : d \in {ValidDate(1, 0), BadDate} }
  \cup { [NoParams EXCEPT !.date_from = {ValidDate(1, 0)},
                          !.date_to = {ValidDate(2, 0)}],
         [NoParams EXCEPT !.account_name = "work", !.subject = <<"B">>],
         [NoParams EXCEPT !.body = <<"d">>, !.limit = {1}],
         [NoParams EXCEPT !.limit = {1}] }

SearchParams == {NoParams} \cup FilterParams

(***************************************************************************)
(* Specifications.                                                         *)
(***************************************************************************)
\* The cache under the store's writes.
Next == StoreWrite

Spec == Init /\ [][Next]_vars

\* The cache under synchronisation writes and search_emails requests.
NextSearch ==
  \/ FolderWrite
  \/ EmailWrite
  \/ \E p \in SearchParams : SearchEmails(p)

SpecSearch == Init /\ [][NextSearch]_vars

\* Writes of the inbox row of an account.
EquivFolderWrite == \E a \in accounts : UpsertFolder(a.id, "INBOX")

\* Writes of the messages with a body, under every key.
EquivWrite ==
  \E f \in folders, u \in UIDs, m \in { x \in Messages : x.body_text # <<>> } :
    UpsertEmail(f.account_id, f.id, u, m)

\* The cache under synchronisation writes and the two full-text searches
\* of the store, called with the same query, account and limit.
FTSQueries ==
  { <<>>, <<"d", "\"">>, <<"'", "\"", "'">> }

FTSAccounts == {{}} \cup { {i} : i \in DOMAIN ConfiguredAccounts }

FTSLimits == {0, 1}

FTSOptions(q, a, n) ==
  [NoOptions EXCEPT !.Body = {q}, !.AccountID = a, !.Limit = n]

NextEquiv ==
  \/ EquivFolderWrite
  \/ EquivWrite
  \/ \E q \in FTSQueries, a \in FTSAccounts, n \in FTSLimits :
       StoreSearch(FTSOptions(q, a, n))
  \/ \E q \in FTSQueries, a \in FTSAccounts, n \in FTSLimits :
       SearchFTS(q, a, n)

SpecEquiv == Init /\ [][NextEquiv]_vars

\* The cache under synchronisation writes and searches that differ in the
\* limit only, for several configured defaults.  The content of the
\* messages plays no part in the limit, so one message is synchronised
\* under every key.
ConfigLimits == {1, 100, 1000}

LimitMessage == CHOOSE m \in Messages : m.body_text = <<"d">>

LimitWrite ==
  \E f \in folders, u \in UIDs : UpsertEmail(f.account_id, f.id, u, LimitMessage)

InitLimit ==
  /\ InitCache
  /\ SearchResultLimit \in { n \in ConfigLimits : ValidSearchResultLimit(n) }

NextLimit ==
  \/ FolderWrite
  \/ LimitWrite
  \/ \E p \in LimitParams : SearchEmails(p)
  \/ \E n \in RequestedLimits : SearchFTS(<<"d">>, {}, n)

SpecLimit == InitLimit /\ [][NextLimit]_vars

\* The cache under synchronisation writes of messages that differ in the
\* length of the plain-text body, and searches.
Repeat(unit, n) == [i \in 1..(n * Len(unit)) |-> unit[((i - 1) % Len(unit)) + 1]]

SnippetBodies ==
  { <<>>,
    <<"a">>,
    Repeat(<<"a", " ">>, SnippetLen \div 2),
    Repeat(<<"a", " ">>, SnippetLen \div 2) \o <<"a">>,
    <<"a", " ">> \o Repeat(<<"é">>, SnippetLen \div 2) }

SnippetMessages == { [LimitMessage EXCEPT !.body_text = b] : b \in SnippetBodies }

SnippetWrite ==
  \E f \in folders, m \in SnippetMessages : UpsertEmail(f.account_id, f.id, 1, m)

NextSnippet ==
  \/ FolderWrite
  \/ SnippetWrite
  \/ SearchEmails(NoParams)
  \/ SearchFTS(<<"a">>, {}, 0)

SpecSnippet == Init /\ [][NextSnippet]_vars

\* Writes of emails whose recipients, headers and flags are empty, hold
\* quotes, backslashes and empty strings, or hold a byte that is not valid
\* UTF-8.
RoundTripMessages ==
  { [LimitMessage EXCEPT !.recipients = <<>>, !.headers = <<>>, !.flags = <<>>],
    [LimitMessage EXCEPT
       !.recipients = << <<"b", "\"", "x">>, <<>>, <<"a", "\\">> >>,
       !.headers = << << <<"a">>, <<"b", "\"">> >>, << <<"b">>, <<>> >> >>,
       !.flags = << <<"\\", "S">>, <<"a">> >>],
    [LimitMessage EXCEPT !.recipients = << <<"0xFF", "@", "x">> >>] }

RoundTripWrite ==
  \E f \in folders, u \in UIDs, m \in RoundTripMessages :
    UpsertEmail(f.account_id, f.id, u, m)

NextRoundTrip == FolderWrite \/ RoundTripWrite

SpecRoundTrip == Init /\ [][NextRoundTrip]_vars

\* The cache under synchronisation writes and removals of accounts and
\* folders.
RemoveWrite ==
  \E f \in folders, u \in UIDs : UpsertEmail(f.account_id, f.id, u, LimitMessage)

NextRemove ==
  \/ FolderWrite
  \/ RemoveWrite
  \/ \E a \in accounts : DeleteAccount(a.id)
  \/ \E f \in folders : DeleteFolder(f.id)

SpecRemove == Init /\ [][NextRemove]_vars

\* The cache under email upserts that run step by step and can be cut
\* short by a crash of the process, which ends the run.
Alive == last.op # "crash"

Quiet == Alive /\ tx.stage = "none"

NextCrash ==
  \/ Quiet /\ FolderWrite
  \/ Alive /\ \E f \in folders, u \in UIDs, m \in Messages :
                BeginUpsert(f.account_id, f.id, u, m)
  \/ Alive /\ \E a \in accounts, m \in Messages :
                BeginUpsert(a.id, NoSuchId, 1, m)
  \/ Alive /\ WriteRow
  \/ Alive /\ RunTrigger
  \/ Alive /\ Commit
  \/ Alive /\ Crash

SpecCrash == Init /\ [][NextCrash]_vars

\* Synchronisation and get_email.  The database file outlives the process
\* and main only logs a failed UpsertAccount, so the server can start on
\* an account table that differs from the configuration.
EmptyDB ==
  [accounts |-> {}, folders |-> {}, emails |-> {}, emails_fts |-> {},
   sqlite_sequence |-> [accounts |-> 0, folders |-> 0, emails |-> 0],
   last_insert_rowid |-> 0]

RECURSIVE Startup(_, _)
\* main: every configured account whose upsert succeeds is upserted.
Startup(db, names) ==
  IF names = <<>> THEN db
  ELSE Startup(StoreUpsertAccount(db, AccountConfig(Head(names))).db, Tail(names))

\* A new database, all upserts of main succeeded.
FreshDB == Startup(EmptyDB, ConfiguredAccounts)

\* A database written under an earlier configuration of the first account;
\* the upserts of main failed.
StaleDB ==
  [FreshDB EXCEPT
     !.accounts = { IF a.name = ConfiguredAccounts[1]
                      THEN [a EXCEPT !.params = "imap.old"] ELSE a : a \in @ },
     !.last_insert_rowid = 0]

\* A new database; the upsert of the first account failed.
PartialDB == Startup(EmptyDB, Tail(ConfiguredAccounts))

\* A database that holds a bodyless email of an account that has since
\* been removed from the configuration.
OrphanDB ==
  LET a == StoreUpsertAccount(EmptyDB, [Name |-> "gone", Params |-> "imap.gone"])
      f == StoreUpsertFolder(a.db, a.id, "INBOX", 1)
      e == StoreUpsertEmail(f.db, a.id, f.id, 1,
                            CHOOSE m \in Messages : m.body_text = <<>>)
  IN Startup(e.db, ConfiguredAccounts)

\* The server starts on one of the databases dbs.
InitOn(dbs) ==
  /\ \E db \in dbs :
       /\ accounts = db.accounts
       /\ folders = db.folders
       /\ emails = db.emails
       /\ emails_fts = db.emails_fts
       /\ sqlite_sequence = db.sqlite_sequence
       /\ last_insert_rowid = db.last_insert_rowid
  /\ tx = NoTx
  /\ upserted = {}
  /\ last = NoOp
  /\ InitNet
  /\ SearchResultLimit = DefaultSearchResultLimit

\* Synchronisation requests for the first configured account and for an
\* account that is not registered.
SyncNames == {ConfiguredAccounts[1], UnknownAccount}

InitSync == InitOn({FreshDB, StaleDB, PartialDB})

NextSync ==
  \E name \in SyncNames, folderName \in {""} \cup FolderPaths :
    SyncAccount(name, folderName, Environments)

SpecSync == InitSync /\ [][NextSync]_vars

\* get_email on a cache filled by synchronisations of single folders.
InitGet == InitOn({OrphanDB})

NextGet ==
  \/ \E name \in AccountNames, folderName \in FolderPaths :
       SyncAccount(name, folderName, QuietEnvironments)
  \/ \E emailID \in 0..MaxSyncEmailSeq : GetEmailTool(emailID)

SpecGet == InitGet /\ [][NextGet]_vars

\* Folders synchronised again and again.  The faults: the status request
\* fails, the select or the fetch of the messages fails, the cache write
\* of the folder fails, the cache write of one message fails.
RemoteUIDs ==
  UNION { { RemoteMailbox[n][f][i].uid : i \in DOMAIN RemoteMailbox[n][f] } :
            n \in AccountNames, f \in FolderPaths }

ResyncFaults ==
  { Environment("ok", TRUE, [f \in FolderPaths |-> c], TRUE) :
      c \in {"status", "upsert", "select", "fetch"} }
  \cup { Failing(Environment("ok", TRUE, AllOk, TRUE), {u}) : u \in RemoteUIDs }

NextResync ==
  \/ \E name \in AccountNames, folderName \in FolderPaths :
       Resync(name, folderName, {Environment("ok", TRUE, AllOk, TRUE)})
  \/ \E name \in AccountNames, folderName \in FolderPaths :
       Resync(name, folderName, ResyncFaults)

SpecResync == InitOn({FreshDB}) /\ [][NextResync]_vars

\* Messages as a server can make the client library deliver them.  The
\* literals: none, a message with a text part and an HTML part, and bytes
\* that are no message.
Literals ==
  { <<>>, RFC822(<<"a">>, <<"h">>), <<"x">> }

\* The keys of a body map, each with the section it names.
SectionKeys ==
  { <<NilKey, "">>, <<"p1", "">>, <<"p2", "1">> }

\* The body maps of at most MaxSections sections in the orders in which
\* they can be iterated; a key occurs once in a map.
BodyMaps ==
  UNION { { b \in [1..n -> { Section(k[1], k[2], l) : k \in SectionKeys,
                                                    l \in Literals }] :
              \A i, j \in 1..n : b[i].key = b[j].key => i = j } :
          n \in 0..MaxSections }

\* The envelopes: with two senders and recipients of the three kinds, and
\* without any address.
Envelopes ==
  { [MessageId |-> <<"i", "d">>, Subject |-> <<"A">>, Date |-> Date(1, 0),
     From |-> << EnvelopeAddress(<<"n">>, <<"b", "@", "y">>),
                 EnvelopeAddress(<<"m">>, <<"c", "@", "y">>) >>,
     To |-> << EnvelopeAddress(<<>>, <<"t", "@", "x">>),
               EnvelopeAddress(<<>>, <<"u", "@", "x">>) >>,
     Cc |-> << EnvelopeAddress(<<>>, <<"c", "@", "x">>) >>,
     Bcc |-> << EnvelopeAddress(<<>>, <<"b", "@", "x">>) >>],
    [MessageId |-> <<>>, Subject |-> <<>>, Date |-> Date(2, 0),
     From |-> <<>>, To |-> <<>>, Cc |-> <<>>, Bcc |-> <<>>] }

FetchedMessages ==
  { [Uid |-> 1, Envelope |-> e, Flags |-> << <<"\\", "S">> >>, Body |-> b] :
      e \in Envelopes, b \in { {} } \cup { {m} : m \in BodyMaps } }

\* A message of the server with its content.
PlainMessage == Fetched(RemoteMailbox.home.INBOX[1], TRUE)

\* The fetches: of one message, and of a message before or after another.
\* The mailbox sizes: the low half is near 0 or near its greatest value,
\* the high half is 0, 1 or the greatest, so that the sizes reach from 0
\* to 2^32 - 1.
MailboxSizes ==
  { U32(hi, lo) : hi \in {0, 1, Limb - 1},
                  lo \in (0..MaxMailboxLow) \cup ((Limb - 1 - MaxMailboxLow)..(Limb - 1)) }

NextWindow == \E n \in MailboxSizes : FetchDefault(n)

SpecWindow == InitOn({FreshDB}) /\ [][NextWindow]_vars

NextParse ==
  \/ \E m \in FetchedMessages : Parse(<<m>>)
  \/ \E m \in FetchedMessages : Parse(<<m, PlainMessage>>)
  \/ \E m \in FetchedMessages : Parse(<<PlainMessage, m>>)

SpecParse == InitOn({FreshDB}) /\ [][NextParse]_vars

\* Searches on a cache that synchronisations fill, next to the sessions the
\* synchronisations open.
ReadOnlyParams ==
  { NoParams,
    [NoParams EXCEPT !.account_name = ConfiguredAccounts[1]],
    [NoParams EXCEPT !.body = <<"d">>],
    [NoParams EXCEPT !.date_from = {BadDate}] }

InitReadOnly == InitOn({FreshDB})

NextReadOnly ==
  \/ \E name \in AccountNames : SyncAccount(name, "INBOX", QuietEnvironments)
  \/ \E q \in ReadOnlyParams : SearchEmails(q)
  \/ \E query \in {<<"d">>, <<"\"">>}, limit \in {0, 1} :
       SearchFTS(query, {}, limit)

SpecReadOnly == InitReadOnly /\ [][NextReadOnly]_vars

\* The life of the sessions: synchronisations of the inbox and get_email
\* while sessions are dropped, until main closes the manager.
InitConn == InitOn({FreshDB})

NextConn ==
  \/ Running /\ \E name \in AccountNames :
                  SyncAccount(name, "INBOX", QuietEnvironments)
  \/ Running /\ \E emailID \in 1..MaxSyncEmailSeq : GetEmailTool(emailID)
  \/ Running /\ \E i \in 1..MaxSessions : Drop(i)
  \/ Running /\ CloseAll

SpecConn == InitConn /\ [][NextConn]_vars

\* The server: the request loop runs in a goroutine of its own; main waits
\* for a signal or for the loop to end and then returns, which closes the
\* manager whatever the loop is doing.
InitServer == InitOn({FreshDB})

NextServer ==
  \/ Running /\ Decode
  \/ Running /\ NoTool
  \/ Running /\ CallTool
  \/ Running /\ Encode
  \/ Running /\ Return
  \/ Running /\ CloseAll

SpecServer == InitServer /\ [][NextServer]_vars

(***************************************************************************)
(* Claims about the emails table and the full-text index.                  *)
(***************************************************************************)

\* C1: after any sequence of UpsertEmail calls the emails table holds
\* exactly one row for every (account id, folder id, uid) key that was
\* upserted, no other row, and that row carries the subject of the latest
\* upsert of its key.
C1_OneRowPerKeyLatestSubject ==
  /\ \A u \in upserted :
       /\ Cardinality({ r \in emails : Triple(r) = u[1] }) = 1
       /\ \A r \in emails : Triple(r) = u[1] => r.subject = u[2]
  /\ \A r \in emails : \E u \in upserted : u[1] = Triple(r)

\* A key has been upserted again with a different subject.
C1_Witness ==
  \E u \in upserted : \E s \in u[3] : s # u[2]

\* C2: a re-upsert never changes the surrogate id of a row: every id that
\* resolves through GetEmail keeps resolving, and to the same
\* (account, folder, uid), whatever is written next.
C2_SurrogateIdStable ==
  [][ \A r \in emails :
        \E e \in GetEmail(emails', r.id) :
          <<e.account_id, e.folder_id, e.uid>> = Triple(r) ]_vars

\* A cached key has been re-upserted with other mutable fields, and its row
\* still has the id it was inserted with (below the current id counter).
C2_Witness ==
  \E u \in upserted : \E r \in emails :
    /\ Triple(r) = u[1]
    /\ \E s \in u[3] : s # r.subject
    /\ r.id < sqlite_sequence.emails

\* C3: the full-text index mirrors the emails table: the postings held for a
\* rowid are exactly those of the current subject, sender address, sender
\* name and plain-text body of the emails row with that id, and there are
\* no postings for a rowid without a row.
C3_IndexMirrorsRows ==
  /\ \A r \in emails : PostingsOf(emails_fts, r.id) = RowPostings(r.id, r)
  /\ \A p \in emails_fts : \E r \in emails : r.id = p[1]

(***************************************************************************)
(* Claims about search.                                                    *)
(***************************************************************************)
\* The last operation was a search_emails call that returned results.
Searched == last.op = "search_emails" /\ last.err = ""

ResultIds == { last.results[i].id : i \in DOMAIN last.results }

\* A text that is one token: letters only.
IsToken(q) == q # <<>> /\ \A i \in DOMAIN q : IsAlnum(q[i])

Folded(q) == [i \in DOMAIN q |-> FoldCase(q[i])]

\* C4: a search whose only filter is the body filter, set to one token,
\* succeeds; it returns every cached email whose plain-text body contains
\* the token (when the limit does not cut the result short), and returns
\* nothing when no cached body contains the token.
C4_BodyTokenSearch ==
  (/\ last.op = "search_emails"
   /\ IsToken(last.arg.body)
   /\ last.arg = [NoParams EXCEPT !.body = last.arg.body])
  => LET holders == { r \in emails :
                        Folded(last.arg.body) \in Tokens(r.body_text) }
     IN /\ last.err = ""
        /\ Len(last.results) < last.limit
             => \A r \in holders : r.id \in ResultIds
        /\ holders = {} => last.results = <<>>

\* C5: the results of a search are in descending timestamp order, and when
\* the limit cuts the result short the returned emails are the most recent
\* of the selected ones.
C5_DescendingTimestamps ==
  Searched =>
    /\ \A i, j \in DOMAIN last.results :
         i < j => Instant(last.results[i].date) >= Instant(last.results[j].date)
    /\ \A r \in Selected(BuildOptions(last.arg)) :
         r.id \notin ResultIds =>
           \A i \in DOMAIN last.results :
             Instant(last.results[i].date) >= Instant(r.date)

\* The requested limit of the last search_emails call is n.
Requested(n) == last.op = "search_emails" /\ last.arg.limit = {n}

\* C6: a requested limit of 0 or of a negative integer yields the
\* configured default count as the effective limit.
C6_NonPositiveLimitIsConfigured ==
  \A n \in RequestedLimits :
    (Requested(n) /\ n <= 0) => last.limit = SearchResultLimit

\* C7: whatever limit is requested, the search does not fail, the effective
\* limit is in 1..1000, a request above 1000 is treated as 1000, and no
\* more results than the effective limit are returned.
C7_LimitClamped ==
  /\ (last.op = "search_emails" /\ last.arg \in LimitParams) =>
       /\ last.err = ""
       /\ last.limit >= 1 /\ last.limit <= 1000
       /\ Len(last.results) <= last.limit
       /\ \A n \in RequestedLimits : (Requested(n) /\ n > 1000) => last.limit = 1000
  /\ last.op = "SearchFTS" =>
       /\ last.err = ""
       /\ last.limit >= 1 /\ last.limit <= 1000
       /\ Len(last.results) <= last.limit
       /\ last.arg[3] > 1000 => last.limit = 1000

\* A request for 5000 results was served with limit 1000.
C7_Witness ==
  /\ Requested(5000)
  /\ last.limit = 1000
  /\ last.results # <<>>

\* The filters as the search contract states them, for an emails row r and
\* options opts: literal substrings, inclusive bounds on the timestamp, and
\* the full-text predicate over r's indexed values.
SatisfiesFilters(r, opts) ==
  /\ \A a \in opts.AccountID : r.account_id = a
  /\ \A f \in opts.FolderID : r.folder_id = f
  /\ \A v \in opts.Sender :
       IsSubstring(v, r.sender_email) \/ IsSubstring(v, r.sender_name)
  /\ \A v \in opts.Recipient : IsSubstring(v, r.recipients)
  /\ \A v \in opts.Subject : IsSubstring(v, r.subject)
  /\ \A d \in opts.DateFrom : Instant(r.date) >= Instant(d)
  /\ \A d \in opts.DateTo : Instant(r.date) <= Instant(d)
  /\ \A q \in opts.Body :
       /\ Tokens(q) # {}
       /\ \A t \in Tokens(q) : \E p \in RowPostings(r.id, r) : p[3] = t

\* C8: a search returns exactly the cached emails that satisfy every filter
\* that is present (all of them when they fit in the limit, otherwise as
\* many as the limit); without filters it returns every cached email up to
\* the limit.
C8_ExactlyTheMatching ==
  Searched =>
    LET wanted == { r.id : r \in { x \in emails :
                      SatisfiesFilters(x, BuildOptions(last.arg)) } }
    IN /\ ResultIds \subseteq wanted
       /\ Len(last.results) = Cardinality(ResultIds)
       /\ IF Cardinality(wanted) <= last.limit
            THEN ResultIds = wanted
            ELSE Len(last.results) = last.limit

\* C9: with an account filter, every returned email belongs to the named
\* account.
C9_AccountFilter ==
  (Searched /\ last.arg.account_name # "") =>
    \A i \in DOMAIN last.results :
      last.results[i].account_name = last.arg.account_name

\* C10: with a folder filter, every returned email is stored in the named
\* folder.
C10_FolderFilter ==
  (Searched /\ last.arg.folder # "") =>
    \A i \in DOMAIN last.results :
      last.results[i].folder_path = last.arg.folder

\* The emails row a result was made from.
RowOf(result) == CHOOSE r \in emails : r.id = result.id

\* C11: the snippet of every search result is determined by the stored
\* plain-text body of its email: empty when the body is empty, the whole
\* body when it has at most 200 characters, otherwise its first 200
\* characters followed by "...".
C11_SnippetOfBody ==
  (last.op \in {"search_emails", "SearchFTS"} /\ last.err = "") =>
    \A i \in DOMAIN last.results :
      LET body == RowOf(last.results[i]).body_text
      IN last.results[i].snippet =
           IF Len(body) <= SnippetLen THEN Bytes(body)
           ELSE Bytes(SubSeq(body, 1, SnippetLen)) \o <<".", ".", ".">>

(***************************************************************************)
(* Claims about get_email.                                                 *)
(***************************************************************************)
\* The step is a get_email call for emailID.
GetEmailStep(emailID) == last'.op = "get_email" /\ last'.arg = emailID

\* The remote calls of a trace that open a connection, that fetch, and the
\* messages received.
Dials(t) == { i \in DOMAIN t : t[i].call = "dial" }
Fetches(t) == { i \in DOMAIN t : t[i].call = "fetch" }
Received(t) == { i \in DOMAIN t : t[i].call = "message" }

\* C12: GetEmail for an id that matches no emails row returns a not-found
\* error, never an empty record without an error; get_email passes the
\* failure on to the caller and attempts no repair: no remote call is made,
\* no session is opened and the cache is unchanged.
C12_NotFoundIsError ==
  [][\A id \in 0..MaxSyncEmailSeq :
       (GetEmailStep(id) /\ GetEmail(emails, id) = {}) =>
         /\ last'.err = "failed to get email"
         /\ last'.results = <<>>
         /\ trace' = <<>>
         /\ sessions' = sessions
         /\ UNCHANGED dbvars]_vars

\* A lookup of an id without a row has failed while the cache holds rows.
C12_Witness ==
  /\ last.op = "get_email"
  /\ last.err = "failed to get email"
  /\ GetEmail(emails, last.arg) = {}
  /\ emails # {}

\* C13: after UpsertEmail has written an email, GetEmail of the row it
\* wrote returns the recipient list, the header map and the flag list that
\* were written, empty collections included.
C13_RoundTrip ==
  [][\A f \in folders, u \in UIDs, m \in RoundTripMessages :
       (UpsertEmail(f.account_id, f.id, u, m) /\ last'.err = "") =>
         \A r \in { x \in emails' : Triple(x) = <<f.account_id, f.id, u>> } :
           /\ GetEmail(emails, r.id)' # {}
           /\ \A e \in GetEmail(emails, r.id)' :
                /\ e.recipients = m.recipients
                /\ e.headers = m.headers
                /\ e.flags = m.flags]_vars

\* C14: once get_email has found the cached record, no failure of the
\* repair path gives the caller an error: the call returns a record, and
\* when the re-fetch has delivered no message the record returned is the
\* cached record and the cache is unchanged.
C14_RepairNeverFails ==
  [][\A id \in 0..MaxSyncEmailSeq :
       (GetEmailStep(id) /\ GetEmail(emails, id) # {}) =>
         /\ last'.err = ""
         /\ Len(last'.results) = 1
         /\ Received(trace') = {} =>
              /\ last'.results[1] \in GetEmail(emails, id)
              /\ UNCHANGED dbvars]_vars

\* A get_email call whose re-fetch failed at a remote call has returned the
\* bodyless record.
C14_Witness ==
  /\ last.op = "get_email"
  /\ last.err = ""
  /\ \E i \in DOMAIN trace : ~trace[i].ok
  /\ Len(last.results) = 1
  /\ Bodyless(last.results[1])

\* C15: get_email for a record whose bodies are both empty makes exactly
\* one re-fetch attempt (one connection, at most one fetch); when the
\* re-fetch has delivered the message and the row has been written, the row
\* holds the bodies returned, and a following get_email for the same id
\* returns a body and makes no remote call.  get_email for a record with a
\* non-empty body makes no remote call.
C15_OneRefetch ==
  [][\A id \in 0..MaxSyncEmailSeq :
       (GetEmailStep(id) /\ GetEmail(emails, id) # {}) =>
         LET cached == CHOOSE e \in GetEmail(emails, id) : TRUE
             row == CHOOSE r \in emails' : r.id = id
         IN /\ (Bodyless(cached) /\ cached.account_name \in AccountNames) =>
                 /\ Cardinality(Dials(trace')) = 1
                 /\ Cardinality(Fetches(trace')) <= 1
            /\ (Received(trace') # {} /\ sqlite_sequence' # sqlite_sequence) =>
                 /\ row.body_text = last'.results[1].body_text
                 /\ row.body_html = last'.results[1].body_html
            /\ (/\ last.op = "get_email"
                /\ last.arg = id
                /\ Received(trace) # {}
                /\ last.results[1].body_text = cached.body_text
                /\ last.results[1].body_html = cached.body_html) =>
                 /\ trace' = <<>>
                 /\ ~Bodyless(last'.results[1])
            /\ ~Bodyless(cached) => trace' = <<>>]_vars

(***************************************************************************)
(* Claims about synchronisation and connections.                           *)
(***************************************************************************)
\* The last operation was SyncAccount for a registered account.
Synced(name) == last.op = "SyncAccount" /\ last.arg[1] = name

\* The step is a SyncAccount call for the account.
SyncStep(name) == last'.op = "SyncAccount" /\ last'.arg[1] = name

\* The positions of a trace at which a folder is selected.
Selects(t, folder) ==
  { i \in DOMAIN t : t[i].call = "select" /\ t[i].folder = folder }

\* C16: SyncAccount with no folder named, once the folder listing has
\* succeeded, attempts every folder listed (each is selected for its
\* status) whatever fails on the folders before it, and returns no error.
C16_EveryFolderAttempted ==
  \A name \in AccountNames :
    (/\ Synced(name)
     /\ last.arg[2] = ""
     /\ \E i \in DOMAIN trace : trace[i].call = "list" /\ trace[i].ok) =>
      /\ last.err = ""
      /\ \A k \in DOMAIN RemoteFolders[name] :
           Selects(trace, RemoteFolders[name][k]) # {}

\* An all-folders pass in which a step of one folder failed and a folder
\* listed after it was attempted all the same.
C16_Witness ==
  /\ last.op = "SyncAccount"
  /\ last.arg[2] = ""
  /\ last.err = ""
  /\ \E i, j \in DOMAIN trace :
       /\ i < j
       /\ ~trace[i].ok
       /\ trace[i].folder # ""
       /\ trace[j].call = "select"
       /\ trace[j].folder # trace[i].folder

C18_ParamsUpdated ==
  [][\A name \in AccountNames :
       SyncStep(name) =>
         /\ \A a \in { x \in accounts' : x.name = name } :
              a.params = ConfigParams[name]
         /\ \A a \in { x \in accounts : x.name = name } :
              \E b \in accounts' : b.id = a.id /\ b.name = a.name]_vars

\* C19: SyncAccount for a name that is not registered returns the
\* account-not-found error, makes no remote call, opens no session and
\* leaves the cache as it was.
C19_UnknownAccount ==
  [][(last'.op = "SyncAccount" /\ last'.arg[1] \notin AccountNames) =>
       /\ last'.err = "account not found"
       /\ trace' = <<>>
       /\ UNCHANGED <<dbvars, clients, sessions>>]_vars

\* A pass for an unregistered name has failed on a cache that holds rows.
C19_Witness ==
  /\ last.op = "SyncAccount"
  /\ last.arg[1] = UnknownAccount
  /\ last.err = "account not found"
  /\ emails # {}

\* C20: registration opens no connection; a remote operation on a handle
\* that has no session dials once, and opens one session when the connect
\* succeeds; an operation on a handle whose session is up makes its remote
\* calls on that session, without a dial or a login.
C20_LazyConnectReuse ==
  /\ sessions = <<>>
  /\ \A name \in AccountNames : clients[name] = NewIMAPClient
  /\ [][\A name \in AccountNames :
          SyncStep(name) =>
            IF clients[name].connected
              THEN /\ \A i \in DOMAIN trace' :
                        trace'[i].call \notin {"dial", "login"}
                   /\ sessions' = sessions
                   /\ clients' = clients
              ELSE /\ trace' # <<>>
                   /\ trace'[1].call = "dial"
                   /\ Cardinality(Dials(trace')) = 1
                   /\ Len(sessions') <= Len(sessions) + 1
                   /\ clients'[name].connected =>
                        /\ Len(sessions') = Len(sessions) + 1
                        /\ clients'[name].client = Len(sessions')
                        /\ sessions'[Len(sessions')] =
                             [account |-> name, state |-> "up"]]_vars

\* A pass on a connected handle has made remote calls without dialing.
C20_Witness ==
  /\ last.op = "SyncAccount"
  /\ \E i \in DOMAIN trace : trace[i].call = "fetch" /\ trace[i].ok
  /\ Dials(trace) = {}
  /\ Len(sessions) = 1

(***************************************************************************)
(* Claims about the life of sessions.                                      *)
(***************************************************************************)
\* The handle h is marked connected and the session it holds is down.
OnDeadSession(h, ss) ==
  /\ h.connected
  /\ h.client # 0
  /\ ss[h.client].state = "down"

\* C21: a remote operation on a handle whose session has been torn down
\* establishes a new session (it starts with a dial), and after a remote
\* operation on a handle the handle is not marked connected to a session
\* that is down.
C21_DeadSessionReconnect ==
  [][\A name \in AccountNames :
       SyncStep(name) =>
         /\ ~OnDeadSession(clients'[name], sessions')
         /\ OnDeadSession(clients[name], sessions) =>
              /\ trace' # <<>>
              /\ trace'[1].call = "dial"]_vars

\* The positions of a trace at which the session of an account is logged
\* out by Close.
Logouts(t, name) ==
  { i \in DOMAIN t : t[i].call = "logout" /\ t[i].account = name }

\* C22: Manager.Close attempts a logout for every registered account whose
\* handle holds a session, whatever the outcome of the logouts before it,
\* ends every such session that is up, and returns no error.
C22_CloseAllBestEffort ==
  [][last'.op = "Close" =>
       /\ last'.err = ""
       /\ \A name \in AccountNames :
            clients[name].client # 0 =>
              /\ Logouts(trace', name) # {}
              /\ sessions[clients[name].client].state = "up" =>
                   /\ sessions'[clients[name].client].state = "closed"
                   /\ clients'[name] = NewIMAPClient]_vars

\* Manager.Close has returned after a logout that failed and a later
\* logout, of another account, that succeeded.
C22_Witness ==
  /\ last.op = "Close"
  /\ last.err = ""
  /\ \E i, j \in DOMAIN trace :
       /\ i < j
       /\ ~trace[i].ok
       /\ trace[j].ok
       /\ trace[i].account # trace[j].account

\* The sessions that are open.
OpenSessions == { i \in DOMAIN sessions : sessions[i].state = "up" }

\* C23: every open session is the one held by the handle the registry has
\* for its account, so that an account has at most one open session, and
\* once Manager.Close has run no session is open.
C23_RegistryOwnsSessions ==
  /\ \A i \in OpenSessions : clients[sessions[i].account].client = i
  /\ \A i, j \in OpenSessions :
       sessions[i].account = sessions[j].account => i = j
  /\ last.op = "Close" => OpenSessions = {}

(***************************************************************************)
(* Claims about the request loop.                                          *)
(***************************************************************************)
\* C24: the handling of a request starts only when handleRequest has
\* returned the response of every request read before it, and at most one
\* request is being handled at any time: a tool runs only as the handling
\* of the one request in hand.
C24_OneRequestAtATime ==
  /\ server = NewServer
  /\ [][/\ server'.req # server.req =>
             /\ server'.req = server.req + 1
             /\ server.resp = server.req
             /\ server.active = {}
        /\ Cardinality(server'.active) <= 1
        /\ last' # last =>
             \/ last'.op = "Close"
             \/ server.active = {server.req} /\ server'.active = {}]_vars

\* The second request is being handled by a tool that changed the cache
\* while handling the first.
C24_Witness ==
  /\ server.req = 2
  /\ server.resp = 1
  /\ server.active = {2}
  /\ emails # {}

(***************************************************************************)
(* Claims about removal and atomicity of the cache writes.                 *)
(***************************************************************************)
\* Every folder has its account, every email its account and its folder.
ReferencesHold ==
  /\ \A f \in folders : \E a \in accounts : a.id = f.account_id
  /\ \A r \in emails :
       /\ \E a \in accounts : a.id = r.account_id
       /\ \E f \in folders : f.id = r.folder_id

\* C25: in every state every folder references an existing account and
\* every email an existing account and an existing folder; the removal of
\* an account row leaves no folder and no email of the account, the
\* removal of a folder row leaves no email of the folder, and the index
\* holds no entry for an email row a removal has taken away.
C25_CascadeDelete ==
  /\ []ReferencesHold
  /\ [][/\ last'.op = "DeleteAccount" =>
             /\ \A f \in folders' : f.account_id # last'.arg
             /\ \A r \in emails' : r.account_id # last'.arg
        /\ last'.op = "DeleteFolder" =>
             \A r \in emails' : r.folder_id # last'.arg
        /\ last'.op \in {"DeleteAccount", "DeleteFolder"} =>
             \A r \in emails \ emails' : PostingsOf(emails_fts', r.id) = {}]_vars

\* The index holds the postings of the values of the row.
Indexed(r, fts) == RowPostings(r.id, r) \subseteq fts

\* C26: the emails table and the index change together or not at all: in
\* every state, also after a crash or a failure of the statement at any
\* point, the index holds the entry of every row of the table with the
\* row's values, and a step that changes the table or the index is the
\* whole effect of one UpsertEmail; a crash or a failed statement changes
\* neither.
C26_RowAndIndexTogether ==
  /\ [](\A r \in emails : Indexed(r, emails_fts))
  /\ [][/\ (emails' # emails \/ emails_fts' # emails_fts) =>
             \E a \in accounts, f \in folders, u \in UIDs, m \in Messages :
               LET done == StoreUpsertEmail(DB, a.id, f.id, u, m)
               IN /\ done.err = ""
                  /\ emails' = done.db.emails
                  /\ emails_fts' = done.db.emails_fts
                  /\ sqlite_sequence' = done.db.sqlite_sequence
        /\ (last'.op = "crash" \/ last'.err # "") =>
             UNCHANGED <<accounts, folders, emails, emails_fts,
                         sqlite_sequence>>]_vars

\* The process has died between the write of a row and the run of the
\* trigger, and the cache holds the rows it held, each with its entry.
C26_Witness ==
  /\ last.op = "crash"
  /\ last.arg = "row"
  /\ emails # {}
  /\ \A r \in emails : Indexed(r, emails_fts)

(***************************************************************************)
(* Claims about what search and repair touch.                              *)
(***************************************************************************)
\* C27: a search (search_emails, Store.Search under it, Store.SearchFTS)
\* leaves the tables, the index and the counters of the cache as they
\* were, makes no remote call, opens no session and leaves every handle of
\* the registry as it was.
C27_SearchReadOnly ==
  [][last'.op \in {"search_emails", "SearchFTS"} =>
       /\ UNCHANGED dbvars
       /\ UNCHANGED <<clients, sessions, trace>>]_vars

\* A search has returned an email of a cache filled by a synchronisation
\* whose session is open, before any handle of the other account was used.
C27_Witness ==
  /\ last.op = "search_emails"
  /\ last.err = ""
  /\ last.results # <<>>
  /\ OpenSessions # {}
  /\ \E name \in AccountNames : ~clients[name].connected

\* The messages of the remote folder of a cached record whose uid is the
\* uid of the record.
RemoteOf(e) ==
  IF e.account_name \in AccountNames /\ e.folder_path \in FolderPaths
    THEN { RemoteMailbox[e.account_name][e.folder_path][i] :
             i \in { j \in DOMAIN RemoteMailbox[e.account_name][e.folder_path] :
                       RemoteMailbox[e.account_name][e.folder_path][j].uid = e.uid } }
    ELSE {}

\* C28: when get_email rewrites the row of a cached record, the bodies it
\* writes are those of the message of the record's folder whose uid is the
\* record's uid (or empty, when the response carried no content), the row
\* keeps its id, key, subject, sender, recipients, date and flags, and no
\* row is created.
C28_RepairFetchesByUid ==
  [][\A id \in 1..MaxSyncEmailSeq :
       (GetEmailStep(id) /\ GetEmail(emails, id) # {} /\ emails' # emails) =>
         LET cached == CHOOSE e \in GetEmail(emails, id) : TRUE
             before == CHOOSE r \in emails : r.id = id
         IN /\ { r.id : r \in emails' } = { r.id : r \in emails }
            /\ \A r \in emails' : r.id # id => r \in emails
            /\ \A r \in { x \in emails' : x.id = id } :
                 /\ r = [before EXCEPT !.body_text = r.body_text,
                                       !.body_html = r.body_html,
                                       !.headers = r.headers]
                 /\ \E m \in RemoteOf(cached) :
                      /\ r.body_text \in {m.text, <<>>}
                      /\ r.body_html \in {m.html, <<>>}]_vars

(***************************************************************************)
(* Claims about parseMessage.                                              *)
(***************************************************************************)
\* The last operation has parsed one message whose body map is not nil.
ParsedOne ==
  /\ last.op = "parseMessage"
  /\ Len(last.arg) = 1
  /\ last.arg[1].Body # {}

\* The literals of the sections of a body map that satisfy a test.
Holding(body, Test(_)) ==
  { body[i].bytes : i \in { j \in DOMAIN body : Test(body[j]) } }

\* The content bytes the order of resolution allows for a body map: the
\* default section (the nil key) when it is present and not empty; else the
\* section with the empty address when it is present (when it is empty, the
\* content of any section is allowed as well); else the first section in
\* the order of iteration that is not empty; else none.
Allowed(body) ==
  LET default == Holding(body, LAMBDA e : e.key = NilKey /\ e.bytes # <<>>)
      empty == Holding(body, LAMBDA e : e.key # NilKey /\ e.section = "")
  IN IF default # {} THEN default
     ELSE IF empty # {}
       THEN IF empty # {<<>>} THEN empty
            ELSE {<<>>} \cup Holding(body, LAMBDA e : e.bytes # <<>>)
     ELSE {AnySection(body)}

\* C29: the bodies of the record of a message are those of the content
\* bytes resolved in the order: default section if present and not empty,
\* then the section with the empty address, then the first section that is
\* not empty.
C29_ResolutionOrder ==
  ParsedOne =>
    \E bytes \in Allowed(CHOOSE b \in last.arg[1].Body : TRUE) :
      /\ last.results[1].body_text = Bodies(bytes).text
      /\ last.results[1].body_html = Bodies(bytes).html

\* The content of a message cannot be resolved: it has no body map, or a
\* map without sections, or only sections whose literals are empty.
Unresolvable(msg) ==
  \A b \in msg.Body : \A i \in DOMAIN b : b[i].bytes = <<>>

\* The addresses of an envelope that receive the message.
Receivers(env) == env.To \o env.Cc \o env.Bcc

ResolvedBytes(msg) ==
  IF msg.Body = {} THEN <<>> ELSE BodyBytes(CHOOSE b \in msg.Body : TRUE)

\* C31: a fetch returns a record for every message; when content bytes are
\* resolved and their MIME decoding fails, the text body of the record is
\* those bytes and its HTML body is empty, and when the decoding succeeds
\* the text and HTML bodies are the decoded parts.
C31_DecodeFallback ==
  last.op = "parseMessage" =>
    /\ Len(last.results) = Len(last.arg)
    /\ \A k \in DOMAIN last.arg :
         ResolvedBytes(last.arg[k]) # <<>> =>
           \/ /\ ReadEnvelope(ResolvedBytes(last.arg[k])).err
              /\ last.results[k].body_text = ResolvedBytes(last.arg[k])
              /\ last.results[k].body_html = <<>>
           \/ /\ ~ReadEnvelope(ResolvedBytes(last.arg[k])).err
              /\ last.results[k].body_text =
                   ReadEnvelope(ResolvedBytes(last.arg[k])).Text
              /\ last.results[k].body_html =
                   ReadEnvelope(ResolvedBytes(last.arg[k])).HTML

\* A fetch has returned the record of a message whose bytes are no MIME
\* message, with the bytes as its text, before the record of a message
\* whose parts were decoded.
C31_Witness ==
  /\ last.op = "parseMessage"
  /\ Len(last.arg) = 2
  /\ ResolvedBytes(last.arg[1]) = <<"x">>
  /\ last.results[1].body_text = <<"x">>
  /\ last.results[1].body_html = <<>>
  /\ ResolvedBytes(last.arg[2]) = RFC822(<<"a">>, <<>>)
  /\ last.results[2].body_text = <<"a">>

\* C32: the sender of a record is the first From address of the envelope,
\* and is empty when the envelope has none; the recipients are the To
\* addresses, then the Cc addresses, then the Bcc addresses, each list in
\* its order, so that their number is |To| + |Cc| + |Bcc|.
C32_SenderAndRecipients ==
  last.op = "parseMessage" =>
    \A k \in DOMAIN last.arg :
      LET env == last.arg[k].Envelope
          rec == last.results[k]
          nTo == Len(env.To)
          nCc == Len(env.Cc)
      IN /\ env.From = <<>> => rec.sender_name = <<>> /\ rec.sender_email = <<>>
         /\ env.From # <<>> =>
              /\ rec.sender_name = env.From[1].PersonalName
              /\ rec.sender_email =
                   env.From[1].MailboxName \o <<"@">> \o env.From[1].HostName
         /\ Len(rec.recipients) = nTo + nCc + Len(env.Bcc)
         /\ \A i \in DOMAIN env.To :
              rec.recipients[i] = Address(env.To[i])
         /\ \A i \in DOMAIN env.Cc :
              rec.recipients[nTo + i] = Address(env.Cc[i])
         /\ \A i \in DOMAIN env.Bcc :
              rec.recipients[nTo + nCc + i] = Address(env.Bcc[i])

\* A message with two From addresses, two To addresses, a Cc and a Bcc
\* address has been parsed.
C32_Witness ==
  /\ last.op = "parseMessage"
  /\ Len(last.arg) = 1
  /\ Len(last.arg[1].Envelope.From) = 2
  /\ last.results[1].sender_email = <<"b", "@", "y">>
  /\ last.results[1].recipients =
       << <<"t", "@", "x">>, <<"u", "@", "x">>, <<"c", "@", "x">>,
          <<"b", "@", "x">> >>

(***************************************************************************)
(* Claims about the steps of a folder synchronisation.                     *)
(***************************************************************************)
\* The positions of a trace at which a call of the name given is made.
At(t, call) == { i \in DOMAIN t : t[i].call = call }

\* The step is a SyncAccount call for the folder of the account.
SyncFolderStep(name, folder) ==
  SyncStep(name) /\ last'.arg[2] = folder

\* The status request of the call of the trace has failed: the first select
\* has.
StatusFailed(t) ==
  /\ At(t, "select") # {}
  /\ \A i \in At(t, "select") : (\A j \in At(t, "select") : i <= j) => ~t[i].ok

\* The rows of a folders table for a path of the account with the name
\* given.
FolderRows(accs, tbl, name, folder) ==
  { f \in tbl : /\ f.path = folder
                /\ \E a \in accs : a.name = name /\ a.id = f.account_id }

\* C33: a synchronisation of one folder reads the status, then upserts the
\* folder row with the message count read and a timestamp newer than every
\* timestamp of the table, then fetches, then upserts each message fetched
\* with the account id and the folder id of the row of that folder; no
\* email is upserted before the folder row is written, and a failed status
\* request leaves the cache as it was.
C33_StepsInOrder ==
  [][\A name \in AccountNames, folder \in FolderPaths :
       SyncFolderStep(name, folder) =>
         /\ \A u \in At(trace', "UpsertFolder") :
              /\ \E i \in At(trace', "select") : i < u /\ trace'[i].ok
              /\ trace'[u].ok =>
                   \E row \in FolderRows(accounts', folders', name, folder) :
                     /\ row.message_count = Len(RemoteMailbox[name][folder])
                     /\ \A g \in folders : g.last_synced < row.last_synced
         /\ \A f \in At(trace', "fetch") :
              \E u \in At(trace', "UpsertFolder") : u < f /\ trace'[u].ok
         /\ \A e \in At(trace', "UpsertEmail") :
              /\ \E f \in At(trace', "fetch") : f < e /\ trace'[f].ok
              /\ \E row \in FolderRows(accounts', folders', name, folder) :
                   /\ trace'[e].account_id = row.account_id
                   /\ trace'[e].folder_id = row.id
         /\ StatusFailed(trace') =>
              UNCHANGED <<accounts, folders, emails, emails_fts,
                          sqlite_sequence, last_insert_rowid>>]_vars

\* C35: a synchronisation of one folder whose fetch succeeded calls
\* UpsertEmail once for every message received, in the order received,
\* whatever the outcome of the calls before, writes the row of every call
\* that succeeded, and returns no error.
C35_FailedUpsertSkipped ==
  \A name \in AccountNames :
    (/\ Synced(name)
     /\ last.arg[2] # ""
     /\ \E f \in At(trace, "fetch") : trace[f].ok) =>
      /\ last.err = ""
      /\ Cardinality(At(trace, "UpsertEmail")) = Cardinality(At(trace, "message"))
      /\ Cardinality(At(trace, "message")) =
           Len(RemoteMailbox[name][last.arg[2]])
      /\ \A e \in At(trace, "UpsertEmail") :
           /\ trace[e].uid =
                RemoteMailbox[name][last.arg[2]]
                  [Cardinality({ d \in At(trace, "UpsertEmail") : d <= e })].uid
           /\ trace[e].ok =>
                \E r \in emails :
                  Triple(r) = <<trace[e].account_id, trace[e].folder_id,
                                trace[e].uid>>

\* A synchronisation in which the upsert of the first message received
\* failed and the upsert of the second wrote its row.
C35_Witness ==
  /\ last.op = "SyncAccount"
  /\ last.err = ""
  /\ \E d, e \in At(trace, "UpsertEmail") :
       /\ d < e
       /\ ~trace[d].ok
       /\ trace[e].ok
       /\ \E r \in emails :
            Triple(r) = <<trace[e].account_id, trace[e].folder_id, trace[e].uid>>

\* C37: the id UpsertFolder returns to a synchronisation is the id of the
\* folders row of the account id and the path it was called with, for a
\* row it creates and for a row it updates, and the emails of the
\* synchronisation are upserted under the id of the account row of the
\* name and under the id of that folders row.
C37_UpsertReturnsRowId ==
  \A name \in AccountNames :
    (Synced(name) /\ last.arg[2] # "") =>
      /\ \A u \in At(trace, "UpsertFolder") :
           trace[u].ok =>
             \E row \in folders :
               /\ row.account_id = trace[u].account_id
               /\ row.path = trace[u].folder
               /\ row.id = trace[u].id
      /\ \A e \in At(trace, "UpsertEmail") :
           /\ \E a \in accounts : a.name = name /\ a.id = trace[e].account_id
           /\ \E row \in FolderRows(accounts, folders, name, last.arg[2]) :
                row.id = trace[e].folder_id

\* C38: the folder of every email row is a folder of the account of the
\* row, and the record GetEmail returns for the row names the account and
\* the folder path that hold the message on the server.
C38_FolderOfOwnAccount ==
  \A r \in emails :
    /\ \A f \in folders : f.id = r.folder_id => f.account_id = r.account_id
    /\ \A e \in GetEmail(emails, r.id) :
         /\ e.account_name \in AccountNames
         /\ e.folder_path \in FolderPaths
         /\ \E i \in DOMAIN RemoteMailbox[e.account_name][e.folder_path] :
              /\ RemoteMailbox[e.account_name][e.folder_path][i].uid = e.uid
              /\ RemoteMailbox[e.account_name][e.folder_path][i].subject = e.subject

\* C39: when the select or the fetch of the messages fails after the folder
\* row was written, the synchronisation leaves the emails table and the
\* index as they were, returns an error, and the folder row holds the
\* message count read and a timestamp newer than every timestamp the table
\* held.
C39_FolderRowAheadOfEmails ==
  [][\A name \in AccountNames, folder \in FolderPaths :
       (/\ SyncFolderStep(name, folder)
        /\ \E u \in At(trace', "UpsertFolder") :
             /\ trace'[u].ok
             /\ \E i \in DOMAIN trace' :
                  /\ u < i
                  /\ trace'[i].call \in {"select", "fetch"}
                  /\ ~trace'[i].ok) =>
         /\ last'.err # ""
         /\ emails' = emails
         /\ emails_fts' = emails_fts
         /\ \E row \in FolderRows(accounts', folders', name, folder) :
              /\ row.message_count = Len(RemoteMailbox[name][folder])
              /\ \A g \in folders : g.last_synced < row.last_synced]_vars

\* The fetch of a synchronisation has failed for a folder whose emails an
\* earlier synchronisation has cached: the timestamp of the folder row is
\* that of the failed pass.
C39_Witness ==
  /\ last.op = "SyncAccount"
  /\ last.err # ""
  /\ \E i \in At(trace, "fetch") : ~trace[i].ok
  /\ \E row \in folders :
       /\ row.path = last.arg[2]
       /\ row.last_synced = sqlite_sequence.folders
       /\ row.last_synced > 1
       /\ \E r \in emails : r.folder_id = row.id

(***************************************************************************)
(* Claims about the default fetch window.                                  *)
(***************************************************************************)
\* a + k on uint32, for a k below 2^16: the sum modulo 2^32.
Add32(a, k) ==
  U32((a.hi + (a.lo + k) \div Limb) % Limb, (a.lo + k) % Limb)

\* a <= b on uint32.
Le32(a, b) == a.hi < b.hi \/ (a.hi = b.hi /\ a.lo <= b.lo)

\* C34: for a folder of N messages the default fetch asks for nothing
\* when N = 0, for 1:N when N <= 100 and for the 100 sequence numbers that
\* end at N when N > 100; the lower bound of the range is never 0 and
\* never above the upper bound, for every N of 32 unsigned bits.
C34_DefaultWindow ==
  last.op = "FetchEmails" =>
    /\ last.arg = Zero32 => ~last.results.fetch
    /\ last.arg # Zero32 =>
         /\ last.results.fetch
         /\ last.results.stop = last.arg
         /\ last.results.start # Zero32
         /\ Le32(last.results.start, last.results.stop)
         /\ Le32(last.arg, U32(0, 100)) => last.results.start = U32(0, 1)
         /\ ~Le32(last.arg, U32(0, 100)) =>
              /\ Add32(last.results.start, 99) = last.arg
              /\ Le32(U32(0, 2), last.results.start)

\* The default fetch of a mailbox of 2^16 + 50 messages has asked for the
\* range that starts at 2^16 - 49.
C34_Witness ==
  /\ last.op = "FetchEmails"
  /\ last.arg = U32(1, 50)
  /\ last.results.fetch
  /\ last.results.start = U32(0, 65487)
  /\ last.results.stop = U32(1, 50)

(***************************************************************************)
(* Claims about the two full-text searches of the store.                   *)
(***************************************************************************)
\* What a search hands back: whether it failed, and its summaries.
Handed(err, results) == [failed |-> err # "", results |-> results]

\* What Search may hand back for the options given.
SearchHands(opts) == { Handed(out.err, out.results) : out \in Search(opts) }

\* What SearchFTS may hand back for the arguments given.
SearchFTSHands(q, a, n) ==
  IF FtsSyntaxError(ReplaceQuotes(q)) THEN { Handed("failed", <<>>) }
  ELSE { Handed("", [i \in DOMAIN Truncate(o, ClampLimitFTS(n)) |->
                      Summary(Truncate(o, ClampLimitFTS(n))[i]) ])
         : o \in OrderByDateDesc(SelectedFTS(q, a)) }

RECURSIVE Undoubled(_)
\* A text with every pair of equal adjacent quote characters replaced by
\* one of them, from the left.
Undoubled(t) ==
  IF t = <<>> THEN <<>>
  ELSE IF Len(t) >= 2 /\ t[1] \in {"\"", "'"} /\ t[2] = t[1]
    THEN <<t[1]>> \o Undoubled(Tail(Tail(t)))
  ELSE <<t[1]>> \o Undoubled(Tail(t))

\* Every quote character of q is doubled in e and nothing else is changed.
QuotesDoubled(q, e) ==
  /\ Len(e) = Len(q) + Cardinality({ i \in DOMAIN q : q[i] \in {"\"", "'"} })
  /\ Undoubled(e) = q
  /\ \A i \in DOMAIN e :
       e[i] \in {"\"", "'"} =>
         \/ i < Len(e) /\ e[i + 1] = e[i]
         \/ i > 1 /\ e[i - 1] = e[i]

\* C36: SearchFTS(q, a, n) hands back what Search hands back for options
\* with only Body = q, AccountID = a and Limit = n set (the same failure,
\* or the same summaries in the same order, rows of equal date being in an
\* order the query may produce), and conversely; the string given to the
\* full-text predicate is q with every double quote and every single quote
\* doubled.
C36_FTSAgreesWithSearch ==
  /\ last.op = "SearchFTS" =>
       /\ Handed(last.err, last.results)
            \in SearchHands(FTSOptions(last.arg[1], last.arg[2], last.arg[3]))
       /\ SearchHands(FTSOptions(last.arg[1], last.arg[2], last.arg[3]))
            = SearchFTSHands(last.arg[1], last.arg[2], last.arg[3])
       /\ last.limit = ClampLimit(last.arg[3])
       /\ QuotesDoubled(last.arg[1], ReplaceQuotes(last.arg[1]))
  /\ last.op = "Search" =>
       \A q \in last.arg.Body :
         /\ Handed(last.err, last.results)
              \in SearchFTSHands(q, last.arg.AccountID, last.arg.Limit)
         /\ last.limit = ClampLimitFTS(last.arg.Limit)

\* SearchFTS has returned one of two matching emails of the first account
\* for a query with a double quote and the limit 1.
C36_Witness ==
  /\ last.op = "SearchFTS"
  /\ last.arg = << <<"d", "\"">>, {1}, 1 >>
  /\ last.err = ""
  /\ Len(last.results) = 1
  /\ Cardinality(SelectedFTS(<<"d", "\"">>, {1})) = 2

(***************************************************************************)
(* Claims about the shutdown.                                              *)
(***************************************************************************)
\* C40: the sessions and the cache are closed only when no tool invocation
\* is executing in the request loop: in no state has main closed the
\* manager while handleRequest is still working on a request.
C40_CloseAfterTool ==
  last.op = "Close" => server.pc # "handle" /\ server.active = {}

====
